---------------------------- MODULE LabRequests ----------------------------
(***************************************************************************)
(* The requests a user may put to the prompt lab, word by word, and what   *)
(* the lab promises of its verdict on any run for such a request.          *)
(***************************************************************************)
EXTENDS Naturals, FiniteSets

CONSTANTS
  Words,         \* the words of a request that the patterns know
  RequestTypes,  \* how it may be classified
  MaxWords       \* bound: at most so many of the words are in it

VARIABLE requests  \* the request, once there is one

R == INSTANCE RequirementAssessment

RequestInit == requests = {}

Ask(format, taskType) ==
  /\ requests = {}
  /\ requests' = {[words |-> {}, format |-> format, taskType |-> taskType]}

AddWord(word) ==
  \E request \in requests :
    /\ Cardinality(request.words \cup {word}) <= MaxWords
    /\ requests' = {[request EXCEPT !.words = @ \cup {word}]}

RequestNext ==
  \/ \E format \in R!Formats, taskType \in RequestTypes : Ask(format, taskType)
  \/ \E word \in Words : AddWord(word)

RequestSpec == RequestInit /\ [][RequestNext]_requests

\* The runs that an assessment may be made of.
Runs == [status : {"completed", "failed", "waiting_for_approval"}, success : {"none", "no"},
         missing : BOOLEAN, taskGraphFallback : BOOLEAN, mockModel : {FALSE},
         aiNode : {"text", "json", "json-schema"}]

(***************************************************************************)
(* What the lab concludes of any run for a request is borne out by the run *)
(* (prompt-lab/product.ts:293-330), and the strategy it followed asks for  *)
(* no trait that it rules out, but for titles (architecture.ts:165-190).   *)
(***************************************************************************)
VerdictsAreHonest ==
  \A request \in requests :
    /\ \A run \in Runs : R!VerdictIsHonest(run, request)
    /\ R!TraitsAgree(request)
=============================================================================
