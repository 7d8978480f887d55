------------------------------ MODULE CfcaEnroll ------------------------------
(* The certificate page of the CFCA sample: the browser's crypto agent makes a     *)
(* key in a container of its own and a request (PKCS#10) for it, the page posts the  *)
(* request, and installs the certificate of the answer in the container whose name   *)
(* the form shows then.  Fields of the form and one XMLHttpRequest are global.       *)
EXTENDS Sequences, Naturals, FiniteSets

CONSTANTS
  Provider,      \* the providers the agent may name, Enhanced among them
  Enhanced,      \* Microsoft Enhanced Cryptographic Provider v1.0
  MaxKeys,       \* bound: keys the agent makes
  MaxPosts       \* bound: requests posted

NoProvider == "none"

ASSUME EnrollAssumption ==
  /\ Enhanced \in Provider /\ NoProvider \notin Provider /\ IsFiniteSet(Provider)
  /\ {MaxKeys, MaxPosts} \subseteq Nat

\* A key stands for its request, its certificate and its container; 0 is none.
Key == 0 .. MaxKeys

\* form: algorithm, options and csp (TextCSPName), p10, container and cert; offered:
\* the providers the agent names; keys: the provider of each key it made, in order;
\* posts: the requests sent, the last one is the global xmlHttp.  History: imports,
\* what the agent was last given to install, by the button or not; meddled, a button made
\* another key while a request was under way; halved, a request was made but its
\* container's name was not; chosen, the user has chosen a provider.
VARIABLES form, offered, keys, posts, imports, meddled, halved, chosen

enrollVars == <<form, offered, keys, posts, imports, meddled, halved, chosen>>

EnrollTypeOK ==
  /\ form \in [algorithm : {"RSA", "SM2"}, options : Seq(Provider),
               csp : Provider \cup {NoProvider}, p10 : Key, container : Key, cert : Key]
  /\ offered \subseteq Provider
  /\ keys \in Seq(Provider) /\ Len(keys) \in Key
  /\ posts \in Seq([p10 : Key, state : {"sent", "done", "failed"}])
  /\ imports \subseteq [cert : Key, container : Key, csp : Provider, byHand : BOOLEAN]
  /\ {meddled, halved, chosen} \subseteq BOOLEAN

-----------------------------------------------------------------------------
\* The loop of remove(i): what is left has moved up, so every other option stays.
Thinned(options) == [i \in 1 .. Len(options) \div 2 |-> options[2 * i]]

\* FindProvider(): the Enhanced one comes first; without an answer of the agent the
\* options are gone and nothing takes their place.
FindProvider(f) ==
  LET left == Thinned(f.options)
  IN  IF offered = {} THEN {[f EXCEPT !.options = left,
                                      !.csp = IF left = <<>> THEN NoProvider ELSE left[1]]}
      ELSE {[f EXCEPT !.options = left \o new, !.csp = (left \o new)[1]] :
              new \in {s \in [1 .. Cardinality(offered) -> offered] :
                         /\ {s[i] : i \in DOMAIN s} = offered
                         /\ Enhanced \in offered => s[1] = Enhanced}}

\* OnLoad() and FindProvider() of a page whose select has the one option.
EnrollInit ==
  /\ offered \in SUBSET Provider
  /\ form \in FindProvider([algorithm |-> "RSA", options |-> <<Enhanced>>, csp |-> Enhanced,
                            p10 |-> 0, container |-> 0, cert |-> 0])
  /\ keys = <<>> /\ posts = <<>> /\ imports = {}
  /\ meddled = FALSE /\ halved = FALSE /\ chosen = FALSE

\* The part that the three requests share: the agent refuses, or it makes a key and
\* the form shows the request, and then the container, or not the container.
MakeKey(csp) ==
  \/ UNCHANGED <<form, keys, halved>>
  \/ /\ Len(keys) < MaxKeys /\ keys' = Append(keys, csp)
     /\ \/ form' = [form EXCEPT !.p10 = Len(keys'), !.container = Len(keys')]
           /\ UNCHANGED halved
        \/ form' = [form EXCEPT !.p10 = Len(keys')] /\ halved' = TRUE

UnderWay == \E i \in DOMAIN posts : posts[i].state = "sent"

\* The buttons of PKCS10Requisition_DoubleCert() and GetTempPublickey(): without a
\* provider they look for one and give up.
RequestDoubleCert ==
  /\ IF form.csp = NoProvider
     THEN form' \in FindProvider(form) /\ UNCHANGED <<keys, halved>>
     ELSE MakeKey(form.csp)
  /\ meddled' = (meddled \/ (UnderWay /\ keys' # keys))
  /\ UNCHANGED <<offered, posts, imports, chosen>>

\* The button of PKCS10Requisition_SingleCert(), whose provider is fixed.
RequestSingleCert ==
  /\ MakeKey(Enhanced)
  /\ meddled' = (meddled \/ (UnderWay /\ keys' # keys))
  /\ UNCHANGED <<offered, posts, imports, chosen>>

\* generateP10Cert(): the request in the form is sent, this one or an earlier one;
\* the XMLHttpRequest before is forgotten.
GenerateP10Cert ==
  /\ Len(posts) < MaxPosts
  /\ MakeKey(Enhanced)
  /\ posts' = Append(posts, [p10 |-> form'.p10, state |-> "sent"])
  /\ UNCHANGED <<offered, imports, meddled, chosen>>

\* The user chooses one of the options of TextCSPName.
ChooseProvider ==
  /\ \E i \in DOMAIN form.options : form' = [form EXCEPT !.csp = form.options[i]]
  /\ chosen' = (chosen \/ form'.csp # form.csp)
  /\ UNCHANGED <<offered, keys, posts, imports, meddled, halved>>

\* KeyAlgorithm_onchange(): back at RSA the select asks for Enhanced, and shows
\* nothing if it has no such option.
KeyAlgorithmChange ==
  /\ form' = IF form.algorithm = "RSA" THEN [form EXCEPT !.algorithm = "SM2"]
             ELSE [form EXCEPT !.algorithm = "RSA",
                     !.csp = IF \E i \in DOMAIN form.options : form.options[i] = Enhanced
                             THEN Enhanced ELSE NoProvider]
  /\ UNCHANGED <<offered, keys, posts, imports, meddled, halved, chosen>>

\* InstallCert(1): every field has to be filled in; the provider is the one that the
\* select shows now, whichever the key was made in.
InstallCert(f, byHand) ==
  IF f.csp = NoProvider \/ f.cert = 0 \/ f.container = 0 THEN UNCHANGED imports
  ELSE imports' \in {imports, {[cert |-> f.cert, container |-> f.container, csp |-> f.csp,
                                byHand |-> byHand]}}

\* Its button.
InstallButton ==
  /\ InstallCert(form, TRUE)
  /\ UNCHANGED <<form, offered, keys, posts, meddled, halved, chosen>>

\* callback() reads the global xmlHttp, whichever request has changed its state.
Answer(i, now) == now[Len(now)]

\* The server has answered the i-th request, or failed to.
Answered(i) ==
  /\ posts[i].state = "sent"
  /\ \E state \in {"done", "failed"} :
       LET now == [posts EXCEPT ![i].state = state]
           http == Answer(i, now)
       IN  /\ posts' = now
           /\ IF http.state = "done"
              THEN form' = [form EXCEPT !.cert = http.p10] /\ InstallCert(form', FALSE)
              ELSE UNCHANGED <<form, imports>>
  /\ UNCHANGED <<offered, keys, meddled, halved, chosen>>

EnrollNext ==
  \/ RequestDoubleCert \/ RequestSingleCert \/ GenerateP10Cert \/ ChooseProvider
  \/ KeyAlgorithmChange \/ InstallButton
  \/ \E i \in DOMAIN posts : Answered(i)

EnrollSpec == EnrollInit /\ [][EnrollNext]_enrollVars

-----------------------------------------------------------------------------
\* The certificate of an answer goes into the container that holds its key, although
\* it comes later and the page may have made other requests by then; and it is the
\* key's provider that is asked, unless the user has chosen another one or the agent
\* does not name Enhanced.  (Not if a button of its own made a key meanwhile, or a
\* request's container was not named.)
CertificateFits ==
  \A import \in imports :
    \/ import.byHand \/ meddled \/ halved
    \/ /\ import.cert = import.container
       /\ chosen \/ Enhanced \notin offered \/ import.csp = keys[import.cert]
=============================================================================
