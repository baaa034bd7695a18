--------------------------- MODULE PromptLabProofs ---------------------------
(***************************************************************************)
(* Lab sessions leave files, histories and processes as they should, for   *)
(* any number of calls, processes, deaths and failed writes; what the lab  *)
(* asks for is judged honestly, and what it measures is what happened.     *)
(***************************************************************************)
EXTENDS PromptLab, LabRequests, MeasuredRuns, Integers, SequencesExt, SequenceTheorems, Recursion

Shared == {"requirements", "evaluations", "last"}

Phases ==
  {"idle", "caching", "creating",
   "flow", "planning", "executing", "assessing", "loading", "saving", "reporting",
   "evaluating", "comparing", "evaluated", "recording", "closing",
   "showing", "reviewing", "finalizing", "prompting",
   "rejected", "failed", "returned", "stopped", "done", "dead"}

Paths ==
  {"requirements", "evaluations", "session", "last", "result", "designs", "failure", "artifacts",
   "evaluation", "flowText", "selfReview", "feedback", "prompt"}

\* What is left of the files of a phase.
Owed(p) ==
  CASE p = "caching"    -> {<<"requirements">>, <<>>}
    [] p = "creating"   -> {<<"session", "last">>, <<"last">>, <<>>}
    [] p = "saving"     -> {<<"result", "designs">>, <<"designs">>, <<>>}
    [] p = "reporting"  -> {<<"failure", "artifacts">>, <<"artifacts">>, <<>>}
    [] p = "evaluated"  -> {<<"evaluation">>, <<>>}
    [] p = "recording"  -> {<<"evaluations">>, <<>>}
    [] p = "closing"    -> {<<"artifacts">>, <<>>}
    [] p = "showing"    -> {<<"flowText">>, <<>>}
    [] p = "reviewing"  -> {<<"selfReview">>, <<>>}
    [] p = "finalizing" -> {<<"feedback">>, <<>>}
    [] p = "prompting"  -> {<<"prompt", "artifacts">>, <<"artifacts">>, <<>>}
    [] OTHER            -> {<<>>}

Lists ==
  {<<>>, <<"requirements">>, <<"evaluations">>, <<"session", "last">>, <<"last">>,
   <<"result", "designs">>, <<"designs">>, <<"failure", "artifacts">>, <<"artifacts">>,
   <<"evaluation">>, <<"flowText">>, <<"selfReview">>, <<"feedback">>, <<"prompt", "artifacts">>}

Distinct(s) == \A i, j \in DOMAIN s : s[i] = s[j] => i = j
Cut(s) == SubSeq(s, 1, IF Len(s) < MaxHistory THEN Len(s) ELSE MaxHistory)

-----------------------------------------------------------------------------
(* The invariant *)

CallTyped ==
  /\ phase \in [Calls -> Phases]
  /\ dir \in [Calls -> ((Nat \ {0}) \X Nat) \cup {None}]
  /\ todo \in [Calls -> Lists]
  /\ open \in [Calls -> BOOLEAN]
  /\ read \in [Calls -> Seq(Nat)]
  /\ saved \in [Calls -> Nat \cup {None}]
  /\ flow \in [Calls -> {None, "completed", "failed"}]
  /\ loaded \in [Calls -> {None, "good", "bad"}]

ProcessTyped ==
  /\ env \in [Processes -> Nat]
  /\ listeners \in [Processes -> SUBSET ({"lab", "runtime"} \X Calls)]
  /\ cache \in [Processes -> {"absent", "reading", "good", "bad"}]

Directories == {OldSession} \cup {dir[c] : c \in {b \in Calls : dir[b] # None}}

DiskTyped ==
  /\ lastRun \in (Nat \X Nat) \cup {Torn}
  /\ histories \in [Histories -> Seq(Nat) \cup {Torn}]
  /\ files \in [Directories -> [torn : SUBSET Paths, whole : SUBSET Paths]]

GhostTyped ==
  /\ models \in [Calls -> Nat \cup {None}]
  /\ recorded \in SUBSET Calls
  /\ earlier \in [Calls -> SUBSET Calls]
  /\ overlapped \in SUBSET Calls
  /\ used \in [Histories -> Seq(Nat)]
  /\ disturbed \in SUBSET Histories

Typed == clock \in Nat \ {0} /\ CallTyped /\ ProcessTyped /\ DiskTyped /\ GhostTyped

\* What the phase of a call says of the files it still writes, of its kind, of its
\* directory and of what it has taken from its process.
CallFits(c) ==
  /\ todo[c] \in Owed(phase[c])
  /\ open[c] => todo[c] # <<>>
  /\ phase[c] \in {"idle", "caching"} => dir[c] = None
  /\ dir[c] = None => phase[c] \in {"idle", "caching", "rejected", "dead"}
  /\ phase[c] \in Running \ {"reporting"} => Kind[c] # "eval"
  /\ phase[c] \in {"evaluating", "comparing", "evaluated", "recording", "closing"} => Kind[c] = "eval"
  /\ phase[c] \in {"showing", "reviewing", "finalizing", "prompting"} => Kind[c] = "cli"
  /\ phase[c] \in Running /\ Kind[c] # "eval" => saved[c] \in Nat
  /\ phase[c] \in {"idle", "caching", "creating", "flow", "planning", "executing"} => flow[c] = None
  /\ Distinct(read[c])

CallsFit == \A c \in Calls : CallFits(c)

LoadFits == \A c \in Calls : loaded[c] # None => cache[Home[c]] = loaded[c]

ListenersFit ==
  \A p \in Processes, c \in Calls :
    /\ <<"lab", c>> \in listeners[p] => c \in Active(p)
    /\ <<"runtime", c>> \in listeners[p] => Home[c] = p /\ flow[c] = None

\* Where no two runs overlapped.
Alone(p) ==
  /\ \A b, c \in Active(p) : b = c
  /\ Active(p) = {} => env[p] = Original
  /\ \A c \in Active(p) : saved[c] = Original
  /\ \A c \in Calls : Home[c] = p =>
       /\ phase[c] \in {"flow", "planning", "executing"} => env[p] = Requirement[c]
       /\ models[c] \in {None, Requirement[c]}

EnvironmentFits ==
  \A p \in Processes : overlapped \cap {c \in Calls : Home[c] = p} = {} => Alone(p)

Writes(c, path) == open[c] /\ Head(todo[c]) = path

HistoryFits(h) ==
  /\ Distinct(used[h])
  /\ histories[h] # Torn => Len(histories[h]) <= MaxHistory /\ Distinct(histories[h])
  /\ h \notin disturbed =>
       /\ histories[h] # Torn => histories[h] = Cut(used[h])
       /\ \A c \in Calls : Writes(c, h) => histories[h] = Torn /\ read[c] = Cut(used[h])
       /\ \A b, c \in Calls : Writes(b, h) /\ Writes(c, h) => b = c

HistoriesFit == \A h \in Histories : HistoryFits(h)

Names(s) == {s[i] : i \in DOMAIN s}

\* The files that may exist in a phase, those that must be whole, and those of the phase.
Reached(p) ==
  CASE p \in {"idle", "caching"} -> {}
    [] p \in {"creating", "flow", "planning", "executing", "assessing", "loading",
              "evaluating", "comparing"} -> {"session"}
    [] p \in {"saving", "returned"} -> {"session", "result", "designs"}
    [] p = "showing" -> {"session", "result", "designs", "flowText"}
    [] p \in {"reviewing", "stopped"} -> {"session", "result", "designs", "flowText", "selfReview"}
    [] p = "finalizing" -> {"session", "result", "designs", "flowText", "selfReview", "feedback"}
    [] p \in {"evaluated", "recording"} -> {"session", "evaluation"}
    [] p \in {"prompting", "closing", "done"} -> Paths \ {"failure"}
    [] OTHER -> Paths

Needed(p) ==
  CASE p \in {"returned", "showing", "reviewing"} -> {"result", "designs"}
    [] p = "finalizing" -> {"result", "selfReview"}
    [] p = "prompting"  -> {"result", "selfReview", "feedback"}
    [] p \in {"recording", "closing"} -> {"evaluation"}
    [] p = "done" -> {"artifacts"}
    [] p = "failed" -> {"failure", "artifacts"}
    [] OTHER -> {}

Script(p) ==
  CASE p = "creating"   -> {"session"}
    [] p = "saving"     -> {"result", "designs"}
    [] p = "reporting"  -> {"failure", "artifacts"}
    [] p = "evaluated"  -> {"evaluation"}
    [] p = "closing"    -> {"artifacts"}
    [] p = "showing"    -> {"flowText"}
    [] p = "reviewing"  -> {"selfReview"}
    [] p = "finalizing" -> {"feedback"}
    [] p = "prompting"  -> {"prompt", "artifacts"}
    [] OTHER            -> {}

Consistent(whole) ==
  "artifacts" \in whole =>
    \/ "failure" \in whole
    \/ {"result", "selfReview", "feedback", "prompt"} \subseteq whole
    \/ "evaluation" \in whole

FilesFit(c) ==
  LET f == files[dir[c]]
  IN  /\ f.torn \cup f.whole \subseteq Reached(phase[c])
      /\ Needed(phase[c]) \cup (Script(phase[c]) \ Names(todo[c])) \subseteq f.whole
      /\ f.whole \cap Names(todo[c]) = {}
      /\ open[c] /\ Head(todo[c]) \notin Shared => Head(todo[c]) \in f.torn
      /\ Consistent(f.whole)

SessionsFit == \A c \in Calls : dir[c] # None /\ OwnDirectory(c) => FilesFit(c)

AllOwn == \A c \in Calls : dir[c] = None \/ OwnDirectory(c)

LastFits ==
  /\ "session" \in files[OldSession].whole
  /\ lastRun \in {Torn} \cup DOMAIN files
  /\ \A c \in recorded : /\ dir[c] # None
                         /\ phase[c] = "creating" => todo[c] = <<>>
  /\ \A c \in Calls : earlier[c] \subseteq recorded
  /\ lastRun = OldSession => recorded = {}
  /\ AllOwn => /\ \A b \in Calls, c \in recorded : dir[b] = lastRun => b \notin earlier[c]
               /\ \A c \in recorded : "session" \in files[dir[c]].whole

LabInv ==
  /\ Typed /\ CallsFit /\ LoadFits /\ ListenersFit /\ EnvironmentFits
  /\ HistoriesFit /\ SessionsFit /\ LastFits

-----------------------------------------------------------------------------
(* Calls and files *)

Next1(c, p, path, rest) == phase[c] = p /\ Head(todo[c]) = path /\ Tail(todo[c]) = rest

\* Where a call stands that still writes files.
LEMMA Places ==
  ASSUME Typed, NEW c \in Calls, CallFits(c), todo[c] # <<>>
  PROVE  \/ Next1(c, "caching", "requirements", <<>>)
         \/ Next1(c, "creating", "session", <<"last">>)
         \/ Next1(c, "creating", "last", <<>>)
         \/ Next1(c, "saving", "result", <<"designs">>)
         \/ Next1(c, "saving", "designs", <<>>)
         \/ Next1(c, "reporting", "failure", <<"artifacts">>)
         \/ Next1(c, "reporting", "artifacts", <<>>)
         \/ Next1(c, "evaluated", "evaluation", <<>>)
         \/ Next1(c, "recording", "evaluations", <<>>)
         \/ Next1(c, "closing", "artifacts", <<>>)
         \/ Next1(c, "showing", "flowText", <<>>)
         \/ Next1(c, "reviewing", "selfReview", <<>>)
         \/ Next1(c, "finalizing", "feedback", <<>>)
         \/ Next1(c, "prompting", "prompt", <<"artifacts">>)
         \/ Next1(c, "prompting", "artifacts", <<>>)
<1> DEFINE t == todo[c]  p == phase[c]
<1>1. /\ p = "caching" => t = <<"requirements">>
      /\ p = "creating" => t \in {<<"session", "last">>, <<"last">>}
      /\ p = "saving" => t \in {<<"result", "designs">>, <<"designs">>}
      /\ p = "reporting" => t \in {<<"failure", "artifacts">>, <<"artifacts">>}
      /\ p = "evaluated" => t = <<"evaluation">>
      /\ p = "recording" => t = <<"evaluations">>
      /\ p = "closing" => t = <<"artifacts">>
      /\ p = "showing" => t = <<"flowText">>
      /\ p = "reviewing" => t = <<"selfReview">>
      /\ p = "finalizing" => t = <<"feedback">>
      /\ p = "prompting" => t \in {<<"prompt", "artifacts">>, <<"artifacts">>}
      /\ p \in {"caching", "creating", "saving", "reporting", "evaluated", "recording", "closing",
                "showing", "reviewing", "finalizing", "prompting"}
  BY DEF CallFits, Owed, Typed, CallTyped
<1>2. \A a : Head(<<a>>) = a /\ Tail(<<a>>) = <<>>
  OBVIOUS
<1>3. \A a, b : Head(<<a, b>>) = a /\ Tail(<<a, b>>) = <<b>>
  OBVIOUS
<1>4. CASE p = "caching"
  BY <1>1, <1>2, <1>4, Zenon DEF Next1
<1>5. CASE p = "creating"
  BY <1>1, <1>2, <1>3, <1>5, Zenon DEF Next1
<1>6. CASE p = "saving"
  BY <1>1, <1>2, <1>3, <1>6, Zenon DEF Next1
<1>7. CASE p = "reporting"
  BY <1>1, <1>2, <1>3, <1>7, Zenon DEF Next1
<1>8. CASE p = "evaluated"
  BY <1>1, <1>2, <1>8, Zenon DEF Next1
<1>9. CASE p = "recording"
  BY <1>1, <1>2, <1>9, Zenon DEF Next1
<1>10. CASE p = "closing"
  BY <1>1, <1>2, <1>10, Zenon DEF Next1
<1>11. CASE p = "showing"
  BY <1>1, <1>2, <1>11, Zenon DEF Next1
<1>12. CASE p = "reviewing"
  BY <1>1, <1>2, <1>12, Zenon DEF Next1
<1>13. CASE p = "finalizing"
  BY <1>1, <1>2, <1>13, Zenon DEF Next1
<1>14. CASE p = "prompting"
  BY <1>1, <1>2, <1>3, <1>14, Zenon DEF Next1
<1> HIDE DEF p
<1> QED
  BY <1>1, <1>4, <1>5, <1>6, <1>7, <1>8, <1>9, <1>10, <1>11, <1>12, <1>13, <1>14

LEMMA PathFacts ==
  ASSUME Typed, NEW c \in Calls, CallFits(c), todo[c] # <<>>
  PROVE  /\ Head(todo[c]) \in Paths
         /\ Tail(todo[c]) \in Owed(phase[c])
         /\ Tail(todo[c]) \in Lists
         /\ phase[c] \notin Ended \cup {"idle"}
         /\ Head(todo[c]) = "last" => phase[c] = "creating"
         /\ Head(todo[c]) = "requirements" => phase[c] = "caching"
         /\ Head(todo[c]) = "evaluations" => phase[c] = "recording"
         /\ phase[c] = "caching" => Head(todo[c]) = "requirements"
         /\ phase[c] = "caching" \/ (dir[c] # None /\ dir[c] \in (Nat \ {0}) \X Nat /\ dir[c] \in DOMAIN files)
<1>1. Head(todo[c]) \in Paths
  BY Places DEF Next1, Paths
<1>5. phase[c] \notin Ended \cup {"idle"}
  BY Places DEF Next1, Ended
<1>6. /\ Head(todo[c]) = "last" => phase[c] = "creating"
      /\ Head(todo[c]) = "requirements" => phase[c] = "caching"
      /\ Head(todo[c]) = "evaluations" => phase[c] = "recording"
      /\ phase[c] = "caching" => Head(todo[c]) = "requirements"
  BY Places DEF Next1
<1>2. Tail(todo[c]) \in Lists
  BY Places DEF Next1, Lists
<1>3. Tail(todo[c]) \in Owed(phase[c])
  BY Places DEF Next1, Owed
<1>4. phase[c] # "caching" => dir[c] # None
  BY <1>5 DEF CallFits, Ended
<1> QED
  BY <1>1, <1>2, <1>3, <1>4, <1>5, <1>6 DEF Typed, CallTyped, DiskTyped, Directories

LEMMA GoTyped ==
  ASSUME CallTyped, NEW c \in Calls, NEW next \in Phases, NEW paths \in Lists, Go(c, next, paths)
  PROVE  /\ phase' \in [Calls -> Phases] /\ todo' \in [Calls -> Lists] /\ open' \in [Calls -> BOOLEAN]
         /\ phase'[c] = next /\ todo'[c] = paths /\ open'[c] = FALSE
         /\ \A b \in Calls : b # c => phase'[b] = phase[b] /\ todo'[b] = todo[b] /\ open'[b] = open[b]
BY DEF Go, CallTyped

LEMMA CallTypedKeeps ==
  ASSUME Typed, CallsFit, Next
  PROVE  CallTyped'
<1> USE DEF Typed
<1>1. ASSUME NEW c \in Calls, Open(c) PROVE CallTyped'
  BY <1>1 DEF Open, CallTyped
<1>2. ASSUME NEW c \in Calls, Write(c) PROVE CallTyped'
  <2>1. Tail(todo[c]) \in Lists
    BY <1>2, PathFacts DEF Write, CallsFit
  <2> QED
    BY <1>2, <2>1 DEF Write, CallTyped
<1>3. ASSUME NEW c \in Calls, WriteFails(c) PROVE CallTyped'
  <2>1. \E n \in Phases, l \in Lists : Go(c, n, l)
    BY <1>3 DEF WriteFails, Fail, Failures, Phases, Lists
  <2>2. saved' \in [Calls -> Nat \cup {None}]
    BY <1>3 DEF WriteFails, Release, CallTyped
  <2> QED
    BY <1>3, <2>1, <2>2, GoTyped DEF WriteFails, CallTyped
<1>4. ASSUME NEW c \in Calls, Reported(c) PROVE CallTyped'
  <2>1. \E n \in Phases, l \in Lists : Go(c, n, l)
    BY <1>4 DEF Reported, Phases, Lists
  <2>2. saved' \in [Calls -> Nat \cup {None}]
    BY <1>4 DEF Reported, Release, CallTyped
  <2> QED
    BY <1>4, <2>1, <2>2, GoTyped DEF Reported, CallTyped
<1>5. ASSUME NEW c \in Calls, ReadHistory(c) PROVE CallTyped'
  <2>1. \E n \in Phases, l \in Lists : Go(c, n, l)
    BY <1>5 DEF ReadHistory, Phases, Lists
  <2>2. Readable(histories[HistoryOf(c)]) \in Seq(Nat)
    BY DEF Readable, HistoryOf, Histories, DiskTyped
  <2> QED
    BY <1>5, <2>1, <2>2, GoTyped DEF ReadHistory, CallTyped
<1>6. ASSUME NEW c \in Calls, Create(c) PROVE CallTyped'
  <2>1. \E n \in Phases, l \in Lists : Go(c, n, l)
    BY <1>6 DEF Create, Phases, Lists
  <2>2. dir' \in [Calls -> ((Nat \ {0}) \X Nat) \cup {None}]
    <3>1. PICK tick \in {0, 1} : dir' = [dir EXCEPT ![c] = <<clock + tick, Requirement[c]>>]
      BY <1>6 DEF Create
    <3>2. <<clock + tick, Requirement[c]>> \in (Nat \ {0}) \X Nat
      BY CallsAssumption
    <3> QED
      BY <3>1, <3>2 DEF CallTyped
  <2> QED
    BY <1>6, <2>1, <2>2, GoTyped DEF Create, CallTyped
<1>7. ASSUME NEW c \in Calls, Enter(c) PROVE CallTyped'
  <2>1. \E n \in Phases, l \in Lists : Go(c, n, l)
    BY <1>7 DEF Enter, Fail, Failures, Phases, Lists
  <2>2. saved' \in [Calls -> Nat \cup {None}]
    BY <1>7, CallsAssumption DEF Enter, CallTyped, ProcessTyped
  <2> QED
    BY <1>7, <2>1, <2>2, GoTyped DEF Enter, CallTyped
<1>8. ASSUME NEW c \in Calls, StartFlow(c) \/ PlanFlow(c) PROVE CallTyped'
  <2>1. \E n \in Phases, l \in Lists : Go(c, n, l)
    BY <1>8 DEF StartFlow, PlanFlow, Fail, Failures, Phases, Lists
  <2> QED
    BY <1>8, <2>1, GoTyped DEF StartFlow, PlanFlow, CallTyped
<1>9. ASSUME NEW c \in Calls, EndFlow(c) PROVE CallTyped'
  <2>1. \E n \in Phases, l \in Lists : Go(c, n, l)
    BY <1>9 DEF EndFlow, Fail, Failures, Phases, Lists
  <2>2. flow' \in [Calls -> {None, "completed", "failed"}]
    BY <1>9 DEF EndFlow, CallTyped
  <2> QED
    BY <1>9, <2>1, <2>2, GoTyped DEF EndFlow, CallTyped
<1>10. ASSUME NEW c \in Calls, Load(c) PROVE CallTyped'
  <2>1. \E n \in Phases, l \in Lists : Go(c, n, l)
    BY <1>10 DEF Load, Phases, Lists
  <2> QED
    BY <1>10, <2>1, GoTyped DEF Load, CallTyped
<1>11. ASSUME NEW c \in Calls, Assess(c) PROVE CallTyped'
  <2>1. \E n \in Phases, l \in Lists : Go(c, n, l)
    BY <1>11 DEF Assess, Fail, Failures, Results, Phases, Lists
  <2>2. loaded' \in [Calls -> {None, "good", "bad"}]
    BY <1>11 DEF Assess, CallTyped
  <2> QED
    BY <1>11, <2>1, <2>2, GoTyped DEF Assess, CallTyped
<1>12. ASSUME NEW c \in Calls, Return(c) PROVE CallTyped'
  <2>1. \E n \in Phases, l \in Lists : Go(c, n, l)
    BY <1>12 DEF Return, Phases, Lists
  <2>2. saved' \in [Calls -> Nat \cup {None}]
    BY <1>12 DEF Return, Release, CallTyped
  <2> QED
    BY <1>12, <2>1, <2>2, GoTyped DEF Return, CallTyped
<1>13. ASSUME NEW c \in Calls, Review(c) \/ Finalize(c) \/ Prompt(c) \/ Finish(c) PROVE CallTyped'
  <2>1. \E n \in Phases, l \in Lists : Go(c, n, l)
    BY <1>13 DEF Review, Finalize, Prompt, Finish, Prompts, Phases, Lists
  <2> QED
    BY <1>13, <2>1, GoTyped DEF Review, Finalize, Prompt, Finish, CallTyped
<1>14. ASSUME NEW c \in Calls, Evaluate(c) PROVE CallTyped'
  <2>1. \E n \in Phases, l \in Lists : Go(c, n, l)
    BY <1>14 DEF Evaluate, Fail, Failures, Evaluation, Phases, Lists
  <2>2. loaded' \in [Calls -> {None, "good", "bad"}]
    BY <1>14 DEF Evaluate, CallTyped
  <2> QED
    BY <1>14, <2>1, <2>2, GoTyped DEF Evaluate, CallTyped
<1>15. ASSUME NEW p \in Processes, ReadSettles(p) PROVE CallTyped'
  BY <1>15 DEF ReadSettles, call, CallTyped
<1>16. ASSUME NEW p \in Processes, Crash(p) PROVE CallTyped'
  BY <1>16 DEF Crash, CallTyped, Phases, Lists
<1> QED
  BY <1>1, <1>2, <1>3, <1>4, <1>5, <1>6, <1>7, <1>8, <1>9, <1>10, <1>11, <1>12, <1>13, <1>14, <1>15,
     <1>16 DEF Next

LEMMA ProcessTypedKeeps ==
  ASSUME Typed, CallsFit, Next
  PROVE  ProcessTyped'
<1> USE CallsAssumption DEF Typed
<1>1. ASSUME NEW c \in Calls, \/ Open(c) \/ Write(c) \/ ReadHistory(c) \/ Create(c) \/ PlanFlow(c)
                              \/ Assess(c) \/ Review(c) \/ Finalize(c) \/ Prompt(c) \/ Finish(c)
                              \/ Evaluate(c)
      PROVE  ProcessTyped'
  BY <1>1 DEF Open, Write, ReadHistory, Create, PlanFlow, Assess, Review, Finalize, Prompt, Finish,
              Evaluate, process, ProcessTyped
<1>2. ASSUME NEW c \in Calls, Release(c), Kind[c] = "eval" \/ saved[c] \in Nat, cache' = cache
      PROVE  ProcessTyped'
  BY <1>2 DEF Release, ProcessTyped
<1>3. ASSUME NEW c \in Calls, WriteFails(c) PROVE ProcessTyped'
  <2>1. CASE phase[c] = "reporting"
    BY <1>2, <1>3, <2>1 DEF WriteFails, CallsFit, CallFits, Running
  <2>2. CASE phase[c] # "reporting"
    BY <1>3, <2>2 DEF WriteFails, ProcessTyped
  <2> QED
    BY <2>1, <2>2
<1>4. ASSUME NEW c \in Calls, Reported(c) \/ Return(c) PROVE ProcessTyped'
  BY <1>2, <1>4 DEF Reported, Return, Ready, CallsFit, CallFits, Running
<1>5. ASSUME NEW c \in Calls, Enter(c) PROVE ProcessTyped'
  <2>1. env' \in [Processes -> Nat]
    BY <1>5 DEF Enter, ProcessTyped
  <2>2. listeners' \in [Processes -> SUBSET ({"lab", "runtime"} \X Calls)]
    BY <1>5 DEF Enter, ProcessTyped
  <2> QED
    BY <1>5, <2>1, <2>2 DEF Enter, ProcessTyped
<1>6. ASSUME NEW c \in Calls, StartFlow(c) PROVE ProcessTyped'
  BY <1>6 DEF StartFlow, ProcessTyped
<1>7. ASSUME NEW c \in Calls, EndFlow(c) PROVE ProcessTyped'
  BY <1>7 DEF EndFlow, ProcessTyped
<1>8. ASSUME NEW c \in Calls, Load(c) PROVE ProcessTyped'
  BY <1>8 DEF Load, LoadCached, ProcessTyped
<1>9. ASSUME NEW p \in Processes, ReadSettles(p) PROVE ProcessTyped'
  BY <1>9 DEF ReadSettles, ProcessTyped
<1>10. ASSUME NEW p \in Processes, Crash(p) PROVE ProcessTyped'
  <2>1. env' \in [Processes -> Nat]
    BY <1>10 DEF Crash, ProcessTyped, Original
  <2>2. listeners' \in [Processes -> SUBSET ({"lab", "runtime"} \X Calls)]
    BY <1>10 DEF Crash, ProcessTyped
  <2>3. cache' \in [Processes -> {"absent", "reading", "good", "bad"}]
    BY <1>10 DEF Crash, ProcessTyped
  <2> QED
    BY <2>1, <2>2, <2>3 DEF ProcessTyped
<1> QED
  BY <1>1, <1>3, <1>4, <1>5, <1>6, <1>7, <1>8, <1>9, <1>10 DEF Next

\* The steps that leave the directories alone.
LEMMA DiskStays ==
  ASSUME DiskTyped, dir' = dir, UNCHANGED disk
  PROVE  DiskTyped'
BY DEF DiskTyped, Directories, disk, Histories


-----------------------------------------------------------------------------
(* Histories *)

Without(entry, s, kept) ==
  /\ kept \in [0..Len(s) -> Seq(Nat)]
  /\ kept[0] = <<>>
  /\ \A i \in 1..Len(s) :
       kept[i] = IF s[i] = entry THEN kept[i - 1] ELSE Append(kept[i - 1], s[i])

\* The recursive function of Others exists.
LEMMA OthersIs ==
  ASSUME NEW s \in Seq(Nat), NEW entry
  PROVE  \E kept : Without(entry, s, kept) /\ Others(entry, s) = kept[Len(s)]
<1> DEFINE n == Len(s)
           step == [x \in Seq(Nat) \X Nat |->
                      IF x[2] \in 1..n /\ s[x[2]] # entry THEN Append(x[1], s[x[2]]) ELSE x[1]]
           Rhs(f) == [i \in 0..n |->
                        IF i = 0 THEN <<>>
                        ELSE IF s[i] = entry THEN f[i - 1] ELSE Append(f[i - 1], s[i])]
           kept == CHOOSE f : f = Rhs(f)
<1>1. n \in Nat /\ (\A i \in 1..n : s[i] \in Nat) /\ <<>> \in Seq(Nat)
  OBVIOUS
<1>2. Others(entry, s) = kept[n]
  BY DEF Others
<1>3. \A x \in Seq(Nat), i \in 1..n : Append(x, s[i]) \in Seq(Nat)
  BY <1>1
<1> HIDE DEF n
<1>4. step \in [Seq(Nat) \X Nat -> Seq(Nat)]
  BY <1>3
<1>5. \A x \in Seq(Nat), i \in 1..n :
        step[<<x, i>>] = IF s[i] = entry THEN x ELSE Append(x, s[i])
  <2> TAKE x \in Seq(Nat), i \in 1..n
  <2>1. <<x, i>> \in Seq(Nat) \X Nat
    BY <1>1
  <2> QED
    BY <2>1
<1> HIDE DEF step
<1>6. PICK g : Primitive(g, Seq(Nat), <<>>, step, n)
  BY <1>1, <1>4, Recursive
<1>7. \A i \in 1..n : i - 1 \in 0..n /\ i # 0 /\ i \in 0..n
  BY <1>1
<1>8. \A i \in 1..n : g[i] = IF s[i] = entry THEN g[i - 1] ELSE Append(g[i - 1], s[i])
  BY <1>5, <1>6, <1>7 DEF Primitive
<1>9. g = Rhs(g)
  <2>1. \A i \in 0..n : i = 0 \/ i \in 1..n
    BY <1>1
  <2>2. \A i \in 0..n :
          g[i] = IF i = 0 THEN <<>> ELSE IF s[i] = entry THEN g[i - 1] ELSE Append(g[i - 1], s[i])
    BY <1>6, <1>8, <2>1 DEF Primitive
  <2>3. \A i \in 0..n : Rhs(g)[i] = g[i]
    BY <2>2
  <2>4. Rhs(g) = [i \in 0..n |-> Rhs(g)[i]]
    OBVIOUS
  <2> HIDE DEF Rhs
  <2> QED
    BY <1>6, <2>3, <2>4 DEF Primitive
<1>10. kept = Rhs(kept)
  BY <1>9
<1> HIDE DEF kept
<1>11. DOMAIN kept = 0..n /\ kept = [i \in DOMAIN kept |-> kept[i]] /\ kept[0] = <<>>
  BY <1>1, <1>10
<1>12. \A i \in 1..n : kept[i] = IF s[i] = entry THEN kept[i - 1] ELSE Append(kept[i - 1], s[i])
  BY <1>7, <1>10
<1>13. \A i \in 1..n : kept[i - 1] \in Seq(Nat) => kept[i] \in Seq(Nat)
  BY <1>3, <1>12
<1>14. kept \in [0..n -> Seq(Nat)]
  BY <1>1, <1>11, <1>13, RecursiveType
<1> QED
  BY <1>2, <1>11, <1>12, <1>14 DEF Without, n

\* What is kept of the first i entries: all of them or all but one, in order.
LEMMA WithoutFacts ==
  ASSUME NEW s \in Seq(Nat), NEW entry, NEW kept, Without(entry, s, kept), Distinct(s)
  PROVE  \A i \in 0..Len(s) :
           /\ Len(kept[i]) <= i /\ Len(kept[i]) + 1 >= i
           /\ (Len(kept[i]) # i => \E k \in 1..i : s[k] = entry)
           /\ \A j \in 1..Len(kept[i]) : kept[i][j] # entry /\ \E k \in 1..i : kept[i][j] = s[k]
           /\ Distinct(kept[i])
<1> DEFINE n == Len(s)
           Good(i) ==
             /\ Len(kept[i]) <= i /\ Len(kept[i]) + 1 >= i
             /\ (Len(kept[i]) # i => \E k \in 1..i : s[k] = entry)
             /\ \A j \in 1..Len(kept[i]) : kept[i][j] # entry /\ \E k \in 1..i : kept[i][j] = s[k]
             /\ Distinct(kept[i])
           T == {i \in 0..n : Good(i)}
<1>1. n \in Nat /\ DOMAIN s = 1..n
  OBVIOUS
<1>2. 0 \in T
  BY <1>1 DEF Without, Distinct
<1> HIDE DEF T
<1>3. ASSUME NEW i \in 0..(n - 1), i \in T PROVE i + 1 \in T
  <2>0. i + 1 \in 0..n
    BY <1>1
  <2> SUFFICES Good(i + 1)
    BY <2>0 DEF T
  <2>1. /\ i + 1 \in 1..n /\ i \in 0..n /\ s[i + 1] \in Nat
        /\ kept[i] \in Seq(Nat) /\ kept[i + 1] \in Seq(Nat)
        /\ kept[i + 1] = IF s[i + 1] = entry THEN kept[i] ELSE Append(kept[i], s[i + 1])
    <3>1. i + 1 \in 1..n /\ i \in 0..n /\ i + 1 \in 0..n /\ (i + 1) - 1 = i
      BY <1>1
    <3>2. \A j \in 1..n :
            kept[j] = IF s[j] = entry THEN kept[j - 1] ELSE Append(kept[j - 1], s[j])
      BY DEF Without
    <3>3. kept[i + 1] = IF s[i + 1] = entry THEN kept[(i + 1) - 1] ELSE Append(kept[(i + 1) - 1], s[i + 1])
      BY <3>1, <3>2
    <3>4. kept[i] \in Seq(Nat) /\ kept[i + 1] \in Seq(Nat)
      BY <3>1 DEF Without
    <3> QED
      BY <1>1, <3>1, <3>3, <3>4
  <2>2. Good(i)
    BY <1>3 DEF T
  <2>3. CASE s[i + 1] = entry
    <3>1. kept[i + 1] = kept[i]
      BY <2>1, <2>3
    <3>2. Len(kept[i]) = i
      <4> SUFFICES ASSUME Len(kept[i]) # i PROVE FALSE
        OBVIOUS
      <4>1. PICK k \in 1..i : s[k] = entry
        BY <2>2
      <4>2. k \in DOMAIN s /\ i + 1 \in DOMAIN s /\ k # i + 1
        BY <1>1, <2>1
      <4> QED
        BY <2>3, <4>1, <4>2 DEF Distinct
    <3>3. \A k \in 1..i : k \in 1..(i + 1)
      BY <2>1
    <3>4. i + 1 \in 1..(i + 1)
      BY <2>1
    <3>5. Len(kept[i + 1]) = i /\ \E k \in 1..(i + 1) : s[k] = entry
      BY <2>3, <3>1, <3>2, <3>4
    <3>6. \A j \in 1..Len(kept[i + 1]) :
            kept[i + 1][j] # entry /\ \E k \in 1..(i + 1) : kept[i + 1][j] = s[k]
      BY <2>2, <3>1, <3>3
    <3>7. Distinct(kept[i + 1])
      BY <2>2, <3>1
    <3>8. i <= i + 1 /\ i + 1 >= i + 1
      BY <2>1
    <3> QED
      BY <3>5, <3>6, <3>7, <3>8
  <2>4. CASE s[i + 1] # entry
    <3>1. /\ kept[i + 1] = Append(kept[i], s[i + 1])
          /\ Len(kept[i + 1]) = Len(kept[i]) + 1 /\ Len(kept[i]) \in Nat
          /\ \A j \in 1..Len(kept[i]) : kept[i + 1][j] = kept[i][j]
          /\ kept[i + 1][Len(kept[i]) + 1] = s[i + 1]
      BY <2>1, <2>4
    <3>2. \A k \in 1..i : k \in 1..(i + 1)
      BY <2>1
    <3>3. i + 1 \in 1..(i + 1)
      BY <2>1
    <3>4. /\ Len(kept[i + 1]) <= i + 1 /\ Len(kept[i + 1]) + 1 >= i + 1
          /\ (Len(kept[i + 1]) # i + 1 => \E k \in 1..(i + 1) : s[k] = entry)
      BY <2>1, <2>2, <3>1, <3>2
    <3>5. ASSUME NEW j \in 1..Len(kept[i + 1])
          PROVE  kept[i + 1][j] # entry /\ \E k \in 1..(i + 1) : kept[i + 1][j] = s[k]
      <4>1. CASE j \in 1..Len(kept[i])
        BY <2>2, <3>1, <3>2, <4>1
      <4>2. CASE j = Len(kept[i]) + 1
        BY <2>4, <3>1, <3>3, <4>2
      <4> QED
        BY <3>1, <4>1, <4>2
    <3>6. ASSUME NEW j \in 1..Len(kept[i]) PROVE kept[i][j] # s[i + 1]
      <4>1. PICK k \in 1..i : kept[i][j] = s[k]
        BY <2>2
      <4>2. k \in DOMAIN s /\ i + 1 \in DOMAIN s /\ k # i + 1
        BY <1>1, <2>1
      <4> QED
        BY <4>1, <4>2 DEF Distinct
    <3>7. Distinct(kept[i + 1])
      <4> SUFFICES ASSUME NEW j \in 1..Len(kept[i + 1]), NEW k \in 1..Len(kept[i + 1]),
                          kept[i + 1][j] = kept[i + 1][k]
                   PROVE  j = k
        BY <2>1, LenProperties DEF Distinct
      <4>1. j \in 1..Len(kept[i]) \/ j = Len(kept[i]) + 1
        BY <3>1
      <4>2. k \in 1..Len(kept[i]) \/ k = Len(kept[i]) + 1
        BY <3>1
      <4>3. DOMAIN kept[i] = 1..Len(kept[i])
        BY <2>1
      <4>4. CASE j \in 1..Len(kept[i]) /\ k \in 1..Len(kept[i])
        BY <2>2, <3>1, <4>3, <4>4 DEF Distinct
      <4>5. CASE j = Len(kept[i]) + 1 \/ k = Len(kept[i]) + 1
        BY <3>1, <3>6, <4>1, <4>2, <4>5
      <4> QED
        BY <4>1, <4>2, <4>4, <4>5
    <3> QED
      BY <3>4, <3>5, <3>7
  <2> QED
    BY <2>3, <2>4
<1>4. \A i \in 0..n : i \in T
  <2> HIDE DEF n
  <2> QED
    BY <1>1, <1>2, <1>3, UpTo
<1> QED
  BY <1>4 DEF T

LEMMA CutTyped ==
  ASSUME NEW s \in Seq(Nat)
  PROVE  /\ Cut(s) \in Seq(Nat) /\ Len(Cut(s)) <= MaxHistory
         /\ Len(Cut(s)) = IF Len(s) < MaxHistory THEN Len(s) ELSE MaxHistory
         /\ \A i \in 1..Len(Cut(s)) : i <= Len(s) /\ Cut(s)[i] = s[i]
BY HistoryAssumption, SubSeqProperties DEF Cut

LEMMA CutEqual ==
  ASSUME NEW a \in Seq(Nat), NEW b \in Seq(Nat), Len(a) >= MaxHistory, Len(b) >= MaxHistory,
         \A i \in 1..MaxHistory : a[i] = b[i]
  PROVE  Cut(a) = Cut(b)
<1>1. MaxHistory \in Nat /\ Len(a) \in Nat /\ Len(b) \in Nat
  BY HistoryAssumption
<1>2. Len(Cut(a)) = MaxHistory /\ Len(Cut(b)) = MaxHistory
  BY <1>1, CutTyped
<1>3. \A i \in 1..MaxHistory : Cut(a)[i] = a[i] /\ Cut(b)[i] = b[i]
  BY <1>2, CutTyped
<1>4. Cut(a) \in Seq(Nat) /\ Cut(b) \in Seq(Nat)
  BY CutTyped
<1> QED
  BY <1>2, <1>3, <1>4, SeqEqual

LEMMA CutDistinct ==
  ASSUME NEW s \in Seq(Nat), Distinct(s)
  PROVE  Distinct(Cut(s))
<1>1. DOMAIN Cut(s) = 1..Len(Cut(s)) /\ DOMAIN s = 1..Len(s) /\ Len(s) \in Nat /\ Len(Cut(s)) \in Nat
  BY CutTyped
<1>2. \A i \in 1..Len(Cut(s)) : i <= Len(s) /\ Cut(s)[i] = s[i]
  BY CutTyped
<1>3. \A i \in DOMAIN Cut(s) : i \in DOMAIN s /\ Cut(s)[i] = s[i]
  BY <1>1, <1>2
<1> QED
  BY <1>3 DEF Distinct

LEMMA OthersFacts ==
  ASSUME NEW s \in Seq(Nat), Distinct(s), NEW e \in Nat
  PROVE  /\ <<e>> \o Others(e, s) \in Seq(Nat)
         /\ Distinct(<<e>> \o Others(e, s))
<1>1. PICK kept : Without(e, s, kept) /\ Others(e, s) = kept[Len(s)]
  BY OthersIs
<1> DEFINE t == Others(e, s)
<1>2. t \in Seq(Nat) /\ Distinct(t) /\ \A j \in 1..Len(t) : t[j] # e
  <2>1. Len(s) \in 0..Len(s)
    OBVIOUS
  <2>2. /\ \A j \in 1..Len(kept[Len(s)]) : kept[Len(s)][j] # e
        /\ Distinct(kept[Len(s)])
    BY <1>1, <2>1, WithoutFacts
  <2>3. kept[Len(s)] \in Seq(Nat)
    BY <1>1, <2>1 DEF Without
  <2> QED
    BY <1>1, <2>2, <2>3
<1> HIDE DEF t
<1>3. /\ <<e>> \o t \in Seq(Nat) /\ Len(t) \in Nat
      /\ DOMAIN (<<e>> \o t) = 1..(Len(t) + 1)
      /\ (<<e>> \o t)[1] = e
      /\ \A i \in 2..(Len(t) + 1) : i - 1 \in 1..Len(t) /\ (<<e>> \o t)[i] = t[i - 1]
  BY <1>2
<1>4. Distinct(<<e>> \o t)
  <2> DEFINE u == <<e>> \o t
  <2> HIDE DEF u
  <2>1. /\ DOMAIN u = 1..(Len(t) + 1) /\ u[1] = e
        /\ \A i \in 2..(Len(t) + 1) : i - 1 \in 1..Len(t) /\ u[i] = t[i - 1]
    BY <1>3 DEF u
  <2>2. DOMAIN t = 1..Len(t)
    BY <1>2
  <2>3. ASSUME NEW i \in 2..(Len(t) + 1), NEW j \in 2..(Len(t) + 1), u[i] = u[j] PROVE i = j
    <3>1. i - 1 = j - 1
      BY <1>2, <2>1, <2>2, <2>3 DEF Distinct
    <3> QED
      BY <3>1
  <2>4. \A i \in DOMAIN u : i = 1 \/ i \in 2..(Len(t) + 1)
    BY <1>3, <2>1
  <2>5. \A i \in 2..(Len(t) + 1) : u[i] # u[1]
    BY <1>2, <2>1
  <2> QED
    BY <2>3, <2>4, <2>5 DEF Distinct, u
<1> QED
  BY <1>3, <1>4 DEF t

LEMMA RecordIsCut ==
  ASSUME NEW s, NEW e
  PROVE  Record(e, s) = Cut(<<e>> \o Others(e, s))
BY DEF Record, Cut

\* What is kept of a prefix is a prefix of what is kept.
LEMMA WithoutPrefix ==
  ASSUME NEW s \in Seq(Nat), NEW entry, NEW kept, Without(entry, s, kept), NEW m \in 0..Len(s)
  PROVE  \A i \in m..Len(s) :
           /\ Len(kept[m]) <= Len(kept[i])
           /\ \A j \in 1..Len(kept[m]) : kept[i][j] = kept[m][j]
<1> DEFINE n == Len(s)
           Good(i) == /\ Len(kept[m]) <= Len(kept[i])
                      /\ \A j \in 1..Len(kept[m]) : kept[i][j] = kept[m][j]
           T == {i \in 0..(n - m) : Good(m + i)}
<1>1. /\ n \in Nat /\ m \in Nat /\ m <= n /\ n - m \in Nat
      /\ \A i \in 1..n : s[i] \in Nat
  OBVIOUS
<1>6. /\ \A i \in 0..n : kept[i] \in Seq(Nat)
      /\ \A i \in 1..n : kept[i] = IF s[i] = entry THEN kept[i - 1] ELSE Append(kept[i - 1], s[i])
  BY DEF Without
<1> HIDE DEF n
<1>2. 0 \in T
  BY <1>1
<1>3. ASSUME NEW i \in 0..(n - m - 1), i \in T PROVE i + 1 \in T
  <2>1. /\ m + (i + 1) \in 1..n /\ (m + (i + 1)) - 1 = m + i /\ m + i \in 0..n /\ i + 1 \in 0..(n - m)
    BY <1>1
  <2>2. /\ kept[m + i] \in Seq(Nat) /\ kept[m] \in Seq(Nat) /\ s[m + (i + 1)] \in Nat
        /\ \/ kept[m + (i + 1)] = kept[m + i]
           \/ kept[m + (i + 1)] = Append(kept[m + i], s[m + (i + 1)])
    <3> DEFINE k == m + (i + 1)
    <3>1. k \in 1..n /\ k \in 0..n /\ k - 1 = m + i /\ m + i \in 0..n /\ m \in 0..n
      BY <1>1, <2>1
    <3> HIDE DEF k
    <3>2. kept[k] = IF s[k] = entry THEN kept[k - 1] ELSE Append(kept[k - 1], s[k])
      BY <1>6, <3>1
    <3>3. s[k] \in Nat /\ kept[m + i] \in Seq(Nat) /\ kept[m] \in Seq(Nat)
      BY <1>1, <1>6, <3>1
    <3> QED
      BY <3>1, <3>2, <3>3 DEF k
  <2>3. Good(m + i)
    BY <1>3
  <2>4. Good(m + (i + 1))
    <3>1. CASE kept[m + (i + 1)] = kept[m + i]
      BY <2>3, <3>1
    <3>2. CASE kept[m + (i + 1)] = Append(kept[m + i], s[m + (i + 1)])
      <4>1. /\ Len(kept[m + (i + 1)]) = Len(kept[m + i]) + 1 /\ Len(kept[m + i]) \in Nat /\ Len(kept[m]) \in Nat
            /\ \A j \in 1..Len(kept[m + i]) : kept[m + (i + 1)][j] = kept[m + i][j]
        BY <2>2, <3>2
      <4> QED
        BY <2>3, <4>1
    <3> QED
      BY <2>2, <3>1, <3>2
  <2> QED
    BY <2>1, <2>4
<1>4. \A i \in 0..(n - m) : i \in T
  <2> HIDE DEF T
  <2> QED
    BY <1>1, <1>2, <1>3, UpTo
<1>5. ASSUME NEW i \in m..n PROVE Good(i)
  <2>1. i - m \in 0..(n - m) /\ m + (i - m) = i
    BY <1>1
  <2>2. Good(m + (i - m))
    BY <1>4, <2>1
  <2> QED
    BY <2>1, <2>2
<1> QED
  BY <1>5 DEF n

LEMMA RecordOfCut ==
  ASSUME NEW s \in Seq(Nat), Distinct(s), NEW e \in Nat
  PROVE  Record(e, Cut(s)) = Cut(<<e>> \o Others(e, s))
<1> DEFINE n == Len(s)  m == Len(Cut(s))
<1>8. /\ Cut(s) \in Seq(Nat)
      /\ m = IF n < MaxHistory THEN n ELSE MaxHistory
      /\ \A i \in 1..m : Cut(s)[i] = s[i]
  BY CutTyped
<1>9. n \in Nat /\ MaxHistory \in Nat
  BY HistoryAssumption
<1>1. /\ n \in Nat /\ m \in Nat /\ Cut(s) \in Seq(Nat) /\ m <= n
      /\ m = IF n < MaxHistory THEN n ELSE MaxHistory
      /\ \A i \in 1..m : Cut(s)[i] = s[i]
      /\ MaxHistory \in Nat
  <2> HIDE DEF n, m
  <2> QED
    BY <1>8, <1>9
<1>2. PICK kept : Without(e, s, kept) /\ Others(e, s) = kept[n]
  BY OthersIs
<1>3. PICK part : Without(e, Cut(s), part) /\ Others(e, Cut(s)) = part[m]
  BY <1>1, OthersIs
<1> HIDE DEF n, m
<1>4. part[m] = kept[m]
  <2> DEFINE T == {i \in 0..m : part[i] = kept[i]}
  <2>1. 0 \in T
    BY <1>1, <1>2, <1>3 DEF Without
  <2>2. ASSUME NEW i \in 0..(m - 1), i \in T PROVE i + 1 \in T
    <3>1. i + 1 \in 1..m /\ i + 1 \in 0..m /\ i + 1 \in 1..n /\ (i + 1) - 1 = i
      BY <1>1
    <3>2. part[i + 1] = IF Cut(s)[i + 1] = e THEN part[i] ELSE Append(part[i], Cut(s)[i + 1])
      BY <1>3, <3>1 DEF Without, m
    <3>3. kept[i + 1] = IF s[i + 1] = e THEN kept[i] ELSE Append(kept[i], s[i + 1])
      BY <1>2, <3>1 DEF Without, n
    <3> QED
      BY <1>1, <2>2, <3>1, <3>2, <3>3
  <2>3. \A i \in 0..m : i \in T
    <3> HIDE DEF T
    <3> QED
      BY <1>1, <2>1, <2>2, UpTo
  <2> QED
    BY <1>1, <2>3
<1>5. Record(e, Cut(s)) = Cut(<<e>> \o kept[m])
  BY <1>3, <1>4, RecordIsCut
<1>6. CASE m = n
  BY <1>2, <1>5, <1>6
<1>7. CASE m # n
  <2>1. m = MaxHistory /\ m \in 0..n /\ n \in m..n /\ n \in 0..n
    BY <1>1, <1>7
  <2>2. kept[m] \in Seq(Nat) /\ kept[n] \in Seq(Nat)
    BY <1>2, <2>1 DEF Without, n
  <2>3. Len(kept[m]) + 1 >= m
    BY <1>2, <2>1, WithoutFacts DEF n
  <2>4. Len(kept[m]) <= Len(kept[n]) /\ \A j \in 1..Len(kept[m]) : kept[n][j] = kept[m][j]
    BY <1>2, <2>1, WithoutPrefix DEF n
  <2> DEFINE a == <<e>> \o kept[m]  b == <<e>> \o kept[n]
  <2>5. /\ a \in Seq(Nat) /\ Len(a) = Len(kept[m]) + 1 /\ Len(kept[m]) \in Nat /\ a[1] = e
        /\ \A i \in 2..(Len(kept[m]) + 1) : a[i] = kept[m][i - 1]
    BY <2>2
  <2>6. /\ b \in Seq(Nat) /\ Len(b) = Len(kept[n]) + 1 /\ Len(kept[n]) \in Nat /\ b[1] = e
        /\ \A i \in 2..(Len(kept[n]) + 1) : b[i] = kept[n][i - 1]
    BY <2>2
  <2> HIDE DEF a, b
  <2>7. Len(a) >= MaxHistory /\ Len(b) >= MaxHistory
    BY <1>1, <2>1, <2>3, <2>4, <2>5, <2>6
  <2>8. ASSUME NEW i \in 1..MaxHistory PROVE a[i] = b[i]
    <3>1. CASE i = 1
      BY <2>5, <2>6, <3>1
    <3>2. CASE i # 1
      <4>1. /\ i \in 2..(Len(kept[m]) + 1) /\ i \in 2..(Len(kept[n]) + 1)
            /\ i - 1 \in 1..Len(kept[m])
        <5> DEFINE k == Len(kept[m])  l == Len(kept[n])
        <5>1. k \in Nat /\ l \in Nat /\ k + 1 >= MaxHistory /\ k <= l
          BY <2>1, <2>3, <2>4, <2>5, <2>6
        <5> HIDE DEF k, l
        <5>2. i \in 2..(k + 1) /\ i \in 2..(l + 1) /\ i - 1 \in 1..k
          BY <1>1, <3>2, <5>1
        <5> QED
          BY <5>2 DEF k, l
      <4> QED
        BY <2>4, <2>5, <2>6, <4>1
    <3> QED
      BY <3>1, <3>2
  <2>9. Cut(a) = Cut(b)
    BY <2>5, <2>6, <2>7, <2>8, CutEqual
  <2> QED
    BY <1>2, <1>5, <2>9 DEF a, b
<1> QED
  BY <1>6, <1>7

-----------------------------------------------------------------------------
(* Types, continued *)

LEMMA EntryTyped ==
  ASSUME Typed, NEW c \in Calls, CallFits(c), todo[c] # <<>>, NEW h \in Histories, Head(todo[c]) = h
  PROVE  Entry(c, h) \in Nat
BY PathFacts, CallsAssumption DEF Entry, Histories

LEMMA RecordTyped ==
  ASSUME NEW s \in Seq(Nat), Distinct(s), NEW e \in Nat
  PROVE  /\ Record(e, s) \in Seq(Nat) /\ Len(Record(e, s)) <= MaxHistory
         /\ Distinct(Record(e, s))
BY OthersFacts, RecordIsCut, CutTyped, CutDistinct

\* What Place writes.
LEMMA Placed ==
  ASSUME Typed, NEW c \in Calls, CallFits(c), todo[c] # <<>>, NEW torn \in BOOLEAN,
         Place(c, Head(todo[c]), torn)
  PROVE  /\ DOMAIN files' = DOMAIN files
         /\ \A d \in DOMAIN files : files'[d] # files[d] => d = dir[c] /\ Head(todo[c]) \notin Shared
         /\ Head(todo[c]) \notin Shared =>
              /\ dir[c] \in DOMAIN files
              /\ files'[dir[c]] = IF torn
                   THEN [torn |-> files[dir[c]].torn \cup {Head(todo[c])},
                         whole |-> files[dir[c]].whole \ {Head(todo[c])}]
                   ELSE [torn |-> files[dir[c]].torn \ {Head(todo[c])},
                         whole |-> files[dir[c]].whole \cup {Head(todo[c])}]
         /\ lastRun' = IF Head(todo[c]) # "last" THEN lastRun ELSE IF torn THEN Torn ELSE dir[c]
         /\ DOMAIN histories' = DOMAIN histories
         /\ \A h \in Histories :
              histories'[h] = IF Head(todo[c]) # h THEN histories[h]
                              ELSE IF torn THEN Torn ELSE Record(Entry(c, h), read[c])
<1> DEFINE path == Head(todo[c])
<1>1. CASE path = "last"
  BY <1>1 DEF Place, Shared, Histories
<1>2. CASE path \in Histories
  BY <1>2 DEF Place, Shared, Histories, Typed, DiskTyped
<1>3. CASE path \notin Shared
  <2>1. dir[c] \in DOMAIN files /\ path # "last" /\ path \notin Histories
    BY <1>3, PathFacts DEF Shared, Histories
  <2>2. DOMAIN files' = DOMAIN files /\ UNCHANGED <<lastRun, histories>>
    BY <2>1 DEF Place
  <2>3. files'[dir[c]] = IF torn
                   THEN [torn |-> files[dir[c]].torn \cup {path}, whole |-> files[dir[c]].whole \ {path}]
                   ELSE [torn |-> files[dir[c]].torn \ {path}, whole |-> files[dir[c]].whole \cup {path}]
    BY <2>1 DEF Place
  <2>4. \A d \in DOMAIN files : files'[d] # files[d] => d = dir[c]
    BY <2>1 DEF Place
  <2> QED
    BY <1>3, <2>1, <2>2, <2>3, <2>4
<1> QED
  BY <1>1, <1>2, <1>3 DEF Shared, Histories

LEMMA PlaceTyped ==
  ASSUME Typed, NEW c \in Calls, CallFits(c), todo[c] # <<>>, NEW torn \in BOOLEAN,
         Place(c, Head(todo[c]), torn), dir' = dir
  PROVE  DiskTyped'
<1> DEFINE path == Head(todo[c])
<1>1. CASE path = "last"
  <2>1. dir[c] \in Nat \X Nat
    BY <1>1, PathFacts
  <2>2. UNCHANGED <<histories, files>> /\ lastRun' = (IF torn THEN Torn ELSE dir[c])
    BY <1>1 DEF Place, Histories
  <2>3. Directories' = Directories
    BY DEF Directories
  <2>4. lastRun' \in (Nat \X Nat) \cup {Torn}
    BY <2>1, <2>2
  <2> QED
    BY <2>2, <2>3, <2>4 DEF Typed, DiskTyped
<1>2. CASE path \in Histories
  <2>1. Record(Entry(c, path), read[c]) \in Seq(Nat)
    BY <1>2, EntryTyped, RecordTyped DEF CallFits, Typed, CallTyped
  <2>2. UNCHANGED <<lastRun, files>> /\ path # "last"
    BY <1>2 DEF Place, Histories
  <2>3. histories' \in [Histories -> Seq(Nat) \cup {Torn}]
    BY <1>2, <2>1 DEF Place, Typed, DiskTyped, Histories
  <2> QED
    BY <2>2, <2>3 DEF Typed, DiskTyped, Directories
<1>3. CASE path \notin Shared
  <2>1. dir[c] \in DOMAIN files /\ path \in Paths
    BY <1>3, PathFacts DEF Shared
  <2>2. UNCHANGED <<lastRun, histories>>
    BY <1>3 DEF Place, Shared, Histories
  <2>3. files' \in [Directories -> [torn : SUBSET Paths, whole : SUBSET Paths]]
    <3> DEFINE f == files[dir[c]]
    <3>1. /\ [torn |-> f.torn \cup {path}, whole |-> f.whole \ {path}] \in [torn : SUBSET Paths, whole : SUBSET Paths]
          /\ [torn |-> f.torn \ {path}, whole |-> f.whole \cup {path}] \in [torn : SUBSET Paths, whole : SUBSET Paths]
      BY <2>1 DEF Typed, DiskTyped
    <3> QED
      BY <1>3, <3>1 DEF Place, Typed, DiskTyped, Shared, Histories
  <2> QED
    BY <2>2, <2>3 DEF Typed, DiskTyped, Directories, Histories
<1> QED
  BY <1>1, <1>2, <1>3 DEF Shared, Histories

LEMMA DiskTypedKeeps ==
  ASSUME Typed, CallsFit, Next
  PROVE  DiskTyped'
<1> USE DEF Typed
<1>1. ASSUME NEW c \in Calls, Open(c) \/ Write(c) PROVE DiskTyped'
  BY <1>1, PlaceTyped DEF Open, Write, CallsFit
<1>2. ASSUME NEW c \in Calls, Create(c) PROVE DiskTyped'
  <2>1. PICK tick \in {0, 1} :
          LET d == <<clock + tick, Requirement[c]>>
          IN  /\ dir' = [dir EXCEPT ![c] = d]
              /\ files' = [e \in DOMAIN files \cup {d} |-> IF e \in DOMAIN files THEN files[e] ELSE NoFiles]
    BY <1>2 DEF Create
  <2> DEFINE d == <<clock + tick, Requirement[c]>>
  <2>2. d # None
    BY CallsAssumption, ValuesAssumption
  <2> HIDE DEF d
  <2>3. dir' = [dir EXCEPT ![c] = d]
        /\ files' = [e \in DOMAIN files \cup {d} |-> IF e \in DOMAIN files THEN files[e] ELSE NoFiles]
    BY <2>1 DEF d
  <2>4. dir[c] = None
    BY <1>2 DEF Create, Ready, Begins, CallsFit, CallFits
  <2>5. Directories' = Directories \cup {d}
    BY <2>2, <2>3, <2>4 DEF Directories, CallTyped, OldSession
  <2>6. files' \in [Directories' -> [torn : SUBSET Paths, whole : SUBSET Paths]]
    BY <2>3, <2>5 DEF DiskTyped, NoFiles
  <2> QED
    BY <1>2, <2>6 DEF Create, DiskTyped, Histories
<1>3. ASSUME NEW c \in Calls,
             \/ WriteFails(c) \/ Reported(c) \/ ReadHistory(c) \/ Enter(c) \/ StartFlow(c) \/ PlanFlow(c)
             \/ EndFlow(c) \/ Load(c) \/ Assess(c) \/ Return(c) \/ Review(c) \/ Finalize(c) \/ Prompt(c)
             \/ Finish(c) \/ Evaluate(c)
      PROVE  dir' = dir /\ UNCHANGED disk
  BY <1>3 DEF WriteFails, Reported, ReadHistory, Enter, StartFlow, PlanFlow, EndFlow, Load, Assess, Return,
              Review, Finalize, Prompt, Finish, Evaluate
<1>4. ASSUME NEW p \in Processes, ReadSettles(p) \/ Crash(p) PROVE dir' = dir /\ UNCHANGED disk
  BY <1>4 DEF ReadSettles, Crash, call
<1> QED
  BY <1>1, <1>2, <1>3, <1>4, DiskStays DEF Next

LEMMA GhostTypedKeeps ==
  ASSUME Typed, CallsFit, HistoriesFit, Next
  PROVE  GhostTyped'
<1> USE DEF Typed
<1>1. ASSUME NEW c \in Calls, Open(c) \/ WriteFails(c) PROVE GhostTyped'
  BY <1>1 DEF Open, WriteFails, GhostTyped, Histories
<1>2. ASSUME NEW c \in Calls, Write(c) PROVE GhostTyped'
  <2>1. \A h \in Histories : h = Head(todo[c]) =>
          <<Entry(c, h)>> \o Others(Entry(c, h), used[h]) \in Seq(Nat)
    BY <1>2, EntryTyped, OthersFacts DEF Write, CallsFit, HistoriesFit, HistoryFits, GhostTyped
  <2>2. used' = [h \in Histories |->
           IF h = Head(todo[c]) THEN <<Entry(c, h)>> \o Others(Entry(c, h), used[h]) ELSE used[h]]
    BY <1>2 DEF Write
  <2>3. used' \in [Histories -> Seq(Nat)]
    BY <2>1, <2>2 DEF GhostTyped
  <2> QED
    BY <1>2, <2>3 DEF Write, GhostTyped
<1>3. ASSUME NEW c \in Calls, Create(c) \/ Enter(c) PROVE GhostTyped'
  BY <1>3 DEF Create, Enter, GhostTyped, Active
<1>4. ASSUME NEW c \in Calls, EndFlow(c) PROVE GhostTyped'
  BY <1>4, CallsAssumption DEF EndFlow, GhostTyped, ProcessTyped
<1>5. ASSUME NEW c \in Calls,
             \/ Reported(c) \/ ReadHistory(c) \/ StartFlow(c) \/ PlanFlow(c)
             \/ Load(c) \/ Assess(c) \/ Return(c) \/ Review(c) \/ Finalize(c) \/ Prompt(c)
             \/ Finish(c) \/ Evaluate(c)
      PROVE  UNCHANGED ghosts
  BY <1>5 DEF Reported, ReadHistory, StartFlow, PlanFlow, Load, Assess, Return,
              Review, Finalize, Prompt, Finish, Evaluate
<1>6. ASSUME NEW p \in Processes, ReadSettles(p) PROVE UNCHANGED ghosts
  BY <1>6 DEF ReadSettles
<1>7. UNCHANGED ghosts => GhostTyped'
  BY DEF GhostTyped, ghosts
<1>8. ASSUME NEW p \in Processes, Crash(p) PROVE GhostTyped'
  BY <1>8 DEF Crash, GhostTyped, Histories
<1> QED
  BY <1>1, <1>2, <1>3, <1>4, <1>5, <1>6, <1>7, <1>8 DEF Next

LEMMA TypedKeeps ==
  ASSUME Typed, CallsFit, HistoriesFit, Next
  PROVE  Typed'
<1>1. ASSUME NEW c \in Calls, Create(c) PROVE clock' \in Nat \ {0}
  BY <1>1 DEF Create, Typed
<1>2. ASSUME NEW c \in Calls,
             \/ Open(c) \/ Write(c) \/ WriteFails(c) \/ Reported(c) \/ ReadHistory(c) \/ Enter(c)
             \/ StartFlow(c) \/ PlanFlow(c) \/ EndFlow(c) \/ Load(c) \/ Assess(c) \/ Return(c)
             \/ Review(c) \/ Finalize(c) \/ Prompt(c) \/ Finish(c) \/ Evaluate(c)
      PROVE  clock' = clock
  BY <1>2 DEF Open, Write, WriteFails, Reported, ReadHistory, Enter, StartFlow, PlanFlow, EndFlow, Load,
              Assess, Return, Review, Finalize, Prompt, Finish, Evaluate
<1>3. ASSUME NEW p \in Processes, ReadSettles(p) \/ Crash(p) PROVE clock' = clock
  BY <1>3 DEF ReadSettles, Crash
<1>4. clock' \in Nat \ {0}
  BY <1>1, <1>2, <1>3 DEF Next, Typed
<1> QED
  BY <1>4, CallTypedKeeps, ProcessTypedKeeps, DiskTypedKeeps, GhostTypedKeeps DEF Typed

-----------------------------------------------------------------------------
(* Calls in their phases *)

ByCall(c) ==
  \/ Open(c) \/ Write(c) \/ WriteFails(c) \/ Reported(c) \/ ReadHistory(c) \/ Create(c) \/ Enter(c)
  \/ StartFlow(c) \/ PlanFlow(c) \/ EndFlow(c) \/ Load(c) \/ Assess(c) \/ Return(c)
  \/ Review(c) \/ Finalize(c) \/ Prompt(c) \/ Finish(c) \/ Evaluate(c)

\* A call is where it was.
Same(b) ==
  /\ phase'[b] = phase[b] /\ todo'[b] = todo[b] /\ open'[b] = open[b]
  /\ dir'[b] = dir[b] /\ read'[b] = read[b] /\ saved'[b] = saved[b] /\ flow'[b] = flow[b]
  /\ loaded'[b] = loaded[b] /\ models'[b] = models[b]

LEMMA OnlyTheCaller ==
  ASSUME Typed, NEW c \in Calls, ByCall(c), NEW b \in Calls \ {c}
  PROVE  Same(b)
<1> USE DEF Typed, CallTyped, GhostTyped
<1>1. CASE Open(c) \/ Write(c)
  BY <1>1 DEF Open, Write, Same
<1>2. CASE WriteFails(c) \/ Reported(c) \/ Return(c)
  BY <1>2 DEF WriteFails, Reported, Return, Fail, Go, Release, Same, ghosts
<1>3. CASE ReadHistory(c) \/ Enter(c)
  BY <1>3 DEF ReadHistory, Enter, Fail, Go, Same, ghosts
<1>4. CASE Create(c)
  BY <1>4 DEF Create, Go, Same
<1>5. CASE StartFlow(c) \/ PlanFlow(c) \/ EndFlow(c)
  BY <1>5 DEF StartFlow, PlanFlow, EndFlow, Fail, Go, Same, ghosts
<1>6. CASE Load(c) \/ Assess(c) \/ Evaluate(c)
  BY <1>6 DEF Load, Assess, Evaluate, Fail, Go, Same, ghosts
<1>7. CASE Review(c) \/ Finalize(c) \/ Prompt(c) \/ Finish(c)
  BY <1>7 DEF Review, Finalize, Prompt, Finish, Go, Same, ghosts
<1> QED
  BY <1>1, <1>2, <1>3, <1>4, <1>5, <1>6, <1>7 DEF ByCall

\* What a call becomes.
Becomes(c, next, paths) ==
  /\ phase' = [phase EXCEPT ![c] = next] /\ phase'[c] = next
  /\ todo'[c] = paths /\ open'[c] = FALSE

LEMMA GoBecomes ==
  ASSUME Typed, NEW c \in Calls, NEW next, NEW paths, Go(c, next, paths)
  PROVE  Becomes(c, next, paths)
BY DEF Go, Becomes, Typed, CallTyped

LEMMA Created ==
  ASSUME Typed, CallsFit, NEW c \in Calls, Create(c)
  PROVE  /\ dir[c] = None
         /\ dir'[c] \in (Nat \ {0}) \X Nat /\ dir'[c] # None /\ dir'[c] # OldSession
         /\ \A b \in Calls \ {c} : dir'[b] = dir[b]
         /\ DOMAIN files' = DOMAIN files \cup {dir'[c]}
         /\ \A e \in DOMAIN files' : files'[e] = IF e \in DOMAIN files THEN files[e] ELSE NoFiles
<1>1. PICK tick \in {0, 1} :
        LET d == <<clock + tick, Requirement[c]>>
        IN  /\ dir' = [dir EXCEPT ![c] = d]
            /\ files' = [e \in DOMAIN files \cup {d} |-> IF e \in DOMAIN files THEN files[e] ELSE NoFiles]
  BY DEF Create
<1> DEFINE d == <<clock + tick, Requirement[c]>>
<1>2. d \in (Nat \ {0}) \X Nat /\ d # None /\ d # OldSession
  BY CallsAssumption, ValuesAssumption DEF Typed, OldSession
<1> HIDE DEF d
<1>3. dir' = [dir EXCEPT ![c] = d]
      /\ files' = [e \in DOMAIN files \cup {d} |-> IF e \in DOMAIN files THEN files[e] ELSE NoFiles]
  BY <1>1 DEF d
<1>4. dir[c] = None
  BY DEF Create, Ready, Begins, CallsFit, CallFits
<1> QED
  BY <1>2, <1>3, <1>4 DEF Typed, CallTyped

LEMMA CallFitsKeeps ==
  ASSUME Typed, Typed', CallsFit, HistoriesFit, NEW c \in Calls, ByCall(c)
  PROVE  CallFits(c)'
<1> USE DEF Typed, CallTyped, CallsFit
<1> DEFINE Rest == UNCHANGED <<dir, read, saved, flow>>
<1>1. CASE Open(c) \/ Write(c)
  <2>1. Tail(todo[c]) \in Owed(phase[c])
    BY <1>1, PathFacts DEF Open, Write
  <2>2. phase'[c] = phase[c] /\ Rest
    BY <1>1 DEF Open, Write
  <2>3. CASE Open(c)
    BY <2>2, <2>3 DEF Open, CallFits
  <2>4. CASE Write(c)
    <3>1. todo'[c] = Tail(todo[c]) /\ open'[c] = FALSE
      BY <2>4 DEF Write
    <3> QED
      BY <2>1, <2>2, <3>1 DEF CallFits
  <2> QED
    BY <1>1, <2>3, <2>4
<1>2. CASE WriteFails(c)
  <2>0. phase[c] \in Paths \cup Phases /\ todo[c] # <<>> /\ phase[c] \notin {"idle", "flow", "planning", "executing", "assessing", "loading", "evaluating", "comparing"}
    BY <1>2 DEF WriteFails, CallFits, Owed
  <2>1. UNCHANGED <<dir, read, flow>>
    BY <1>2 DEF WriteFails
  <2>2. CASE phase[c] \in Guarded
    <3>1. Becomes(c, "reporting", Failures) /\ saved' = saved
      BY <1>2, <2>2, GoBecomes DEF WriteFails, Fail, Guarded
    <3> QED
      BY <2>1, <2>2, <3>1 DEF Becomes, CallFits, Owed, Failures, Running, Guarded
  <2>3. CASE phase[c] \notin Guarded
    <3>1. Becomes(c, "rejected", <<>>)
      BY <1>2, <2>3, GoBecomes DEF WriteFails
    <3> QED
      BY <2>0, <2>1, <2>3, <3>1 DEF Becomes, CallFits, Owed, Running, Guarded
  <2> QED
    BY <2>2, <2>3
<1>3. CASE Reported(c)
  <2>1. Becomes(c, "failed", <<>>) /\ UNCHANGED <<dir, read, flow>> /\ phase[c] = "reporting"
    BY <1>3, GoBecomes DEF Reported, Ready
  <2> QED
    BY <2>1 DEF Becomes, CallFits, Owed, Running
<1>4. CASE ReadHistory(c)
  <2>1. Distinct(read'[c])
    <3>1. read'[c] = Readable(histories[HistoryOf(c)])
      BY <1>4 DEF ReadHistory
    <3>2. HistoryOf(c) \in Histories
      BY DEF HistoryOf, Histories
    <3>3. Distinct(<<>>)
      BY DEF Distinct
    <3> QED
      BY <3>1, <3>2, <3>3, Zenon DEF Readable, HistoriesFit, HistoryFits
  <2>2. /\ UNCHANGED <<dir, saved, flow>>
        /\ \/ /\ Kind[c] \in {"cli", "note"} /\ phase[c] = "idle"
              /\ Becomes(c, "caching", <<"requirements">>)
           \/ phase[c] = "evaluated" /\ Becomes(c, "recording", <<"evaluations">>)
    BY <1>4, GoBecomes DEF ReadHistory, Begins, Ready
  <2> QED
    BY <2>1, <2>2 DEF Becomes, CallFits, Owed, Running
<1>5. CASE Create(c)
  <2>1. Becomes(c, "creating", <<"session", "last">>) /\ UNCHANGED <<read, saved, flow>>
        /\ phase[c] \in {"idle", "caching"}
    BY <1>5, GoBecomes DEF Create, Ready, Begins
  <2>2. dir'[c] # None
    BY <1>5, Created
  <2> QED
    BY <2>1, <2>2 DEF Becomes, CallFits, Owed, Running
<1>6. CASE Enter(c)
  <2>1. UNCHANGED <<dir, read, flow>> /\ phase[c] = "creating" /\ Kind[c] # "eval"
    BY <1>6 DEF Enter, Ready
  <2>2. saved'[c] \in Nat
    BY <1>6, CallsAssumption DEF Enter, ProcessTyped
  <2>3. Becomes(c, "reporting", Failures) \/ Becomes(c, "flow", <<>>)
    BY <1>6, GoBecomes DEF Enter, Fail
  <2> QED
    BY <2>1, <2>2, <2>3 DEF Becomes, CallFits, Owed, Running, Failures
<1>7. CASE StartFlow(c) \/ PlanFlow(c)
  <2>1. /\ Rest /\ phase[c] \in {"flow", "planning"}
        /\ \/ Becomes(c, "planning", <<>>) \/ Becomes(c, "executing", <<>>)
           \/ Becomes(c, "reporting", Failures)
    BY <1>7, GoBecomes DEF StartFlow, PlanFlow, Fail
  <2> QED
    BY <2>1 DEF Becomes, CallFits, Owed, Running, Failures
<1>8. CASE EndFlow(c)
  <2>1. /\ UNCHANGED <<dir, read, saved>> /\ phase[c] = "executing"
        /\ Becomes(c, "assessing", <<>>) \/ Becomes(c, "reporting", Failures)
    BY <1>8, GoBecomes DEF EndFlow, Fail
  <2> QED
    BY <2>1 DEF Becomes, CallFits, Owed, Running, Failures
<1>9. CASE Load(c) \/ Assess(c)
  <2>1. /\ Rest
        /\ \/ phase[c] \in {"assessing", "evaluating"}
              /\ Becomes(c, IF Kind[c] = "eval" THEN "comparing" ELSE "loading", <<>>)
           \/ phase[c] = "loading" /\ (Becomes(c, "saving", Results) \/ Becomes(c, "reporting", Failures))
    BY <1>9, GoBecomes DEF Load, LoadCached, Assess, Fail
  <2> QED
    BY <2>1 DEF Becomes, CallFits, Owed, Running, Failures, Results
<1>10. CASE Return(c)
  <2>1. /\ UNCHANGED <<dir, read, flow>> /\ phase[c] = "saving"
        /\ \/ Becomes(c, "showing", <<"flowText">>) /\ Kind[c] = "cli"
           \/ Becomes(c, "returned", <<>>)
    BY <1>10, GoBecomes DEF Return, Ready
  <2> QED
    BY <2>1 DEF Becomes, CallFits, Owed, Running
<1>11. CASE Review(c) \/ Finalize(c) \/ Prompt(c)
  <2>1. /\ Rest /\ phase[c] \in {"showing", "reviewing", "finalizing"}
        /\ \/ Becomes(c, "reviewing", <<"selfReview">>) \/ Becomes(c, "rejected", <<>>)
           \/ Becomes(c, "finalizing", <<"feedback">>) \/ Becomes(c, "stopped", <<>>)
           \/ Becomes(c, "prompting", Prompts)
    BY <1>11, GoBecomes DEF Review, Finalize, Prompt, Ready
  <2> QED
    BY <2>1 DEF Becomes, CallFits, Owed, Running, Prompts
<1>12. CASE Finish(c)
  <2>1. Rest /\ phase[c] \in {"prompting", "closing"} /\ Becomes(c, "done", <<>>)
    BY <1>12, GoBecomes DEF Finish, Ready
  <2> QED
    BY <2>1 DEF Becomes, CallFits, Owed, Running
<1>13. CASE Evaluate(c)
  <2>1. /\ Rest /\ phase[c] \in {"creating", "comparing", "recording"}
        /\ phase[c] = "creating" => Kind[c] = "eval"
        /\ \/ Becomes(c, "evaluating", <<>>) \/ Becomes(c, "reporting", Failures)
           \/ Becomes(c, "evaluated", Evaluation) \/ Becomes(c, "closing", <<"artifacts">>)
    BY <1>13, GoBecomes DEF Evaluate, Fail, Ready
  <2> QED
    BY <2>1 DEF Becomes, CallFits, Owed, Running, Failures, Evaluation
<1> QED
  BY <1>1, <1>2, <1>3, <1>4, <1>5, <1>6, <1>7, <1>8, <1>9, <1>10, <1>11, <1>12, <1>13 DEF ByCall

LEMMA ByCallOrProcess ==
  ASSUME Next
  PROVE  (\E c \in Calls : ByCall(c)) \/ (\E p \in Processes : ReadSettles(p) \/ Crash(p))
BY DEF Next, ByCall

LEMMA CallsFitKeeps ==
  ASSUME Typed, Typed', CallsFit, HistoriesFit, Next
  PROVE  CallsFit'
<1>1. ASSUME NEW c \in Calls, ByCall(c) PROVE CallsFit'
  <2>1. ASSUME NEW b \in Calls \ {c} PROVE CallFits(b)'
    BY <1>1, <2>1, OnlyTheCaller DEF Same, CallFits, CallsFit
  <2> QED
    BY <1>1, <2>1, CallFitsKeeps DEF CallsFit
<1>2. ASSUME NEW p \in Processes, ReadSettles(p) PROVE CallsFit'
  BY <1>2 DEF ReadSettles, call, CallsFit, CallFits
<1>3. ASSUME NEW p \in Processes, Crash(p) PROVE CallsFit'
  <2> SUFFICES ASSUME NEW b \in Calls PROVE CallFits(b)'
    BY DEF CallsFit
  <2>0. UNCHANGED <<dir, read, saved, flow>> /\ CallFits(b)
    BY <1>3 DEF Crash, CallsFit
  <2>1. CASE Home[b] = p /\ phase[b] \notin Ended \cup {"idle"}
    <3>1. phase'[b] = "dead" /\ todo'[b] = <<>> /\ open'[b] = FALSE
      BY <1>3, <2>1 DEF Crash
    <3> QED
      BY <2>0, <3>1 DEF CallFits, Owed, Running
  <2>2. CASE ~(Home[b] = p /\ phase[b] \notin Ended \cup {"idle"})
    <3>1. phase'[b] = phase[b] /\ todo'[b] = todo[b] /\ open'[b] = open[b]
      BY <1>3, <2>2 DEF Crash, Typed, CallTyped
    <3> QED
      BY <2>0, <3>1 DEF CallFits
  <2> QED
    BY <2>1, <2>2
<1> QED
  BY <1>1, <1>2, <1>3, ByCallOrProcess

-----------------------------------------------------------------------------
(* Resources and listeners *)

LEMMA LoadFitsKeeps ==
  ASSUME Typed, LoadFits, Next
  PROVE  LoadFits'
<1> USE CallsAssumption DEF Typed, CallTyped, ProcessTyped, LoadFits
<1>1. ASSUME NEW c \in Calls, Load(c) PROVE LoadFits'
  BY <1>1, ValuesAssumption DEF Load, LoadCached
<1>2. ASSUME NEW c \in Calls, Assess(c) PROVE LoadFits'
  BY <1>2 DEF Assess, process
<1>3. ASSUME NEW c \in Calls, Evaluate(c) PROVE LoadFits'
  BY <1>3 DEF Evaluate, process
<1>4. ASSUME NEW p \in Processes, ReadSettles(p) PROVE LoadFits'
  <2>1. loaded' = loaded /\ \A q \in Processes : q # p => cache'[q] = cache[q]
    BY <1>4 DEF ReadSettles, call
  <2>2. \A c \in Calls : loaded[c] # None => loaded[c] # "reading"
    OBVIOUS
  <2>3. \A c \in Calls : loaded[c] # None => Home[c] # p
    BY <1>4, <2>2 DEF ReadSettles
  <2> QED
    BY <2>1, <2>3
<1>5. ASSUME NEW p \in Processes, Crash(p) PROVE LoadFits'
  BY <1>5 DEF Crash
<1>6. ASSUME NEW c \in Calls,
             \/ Open(c) \/ Write(c) \/ WriteFails(c) \/ Reported(c) \/ ReadHistory(c) \/ Create(c)
             \/ Enter(c) \/ StartFlow(c) \/ PlanFlow(c) \/ EndFlow(c) \/ Return(c) \/ Review(c)
             \/ Finalize(c) \/ Prompt(c) \/ Finish(c)
      PROVE  UNCHANGED <<loaded, cache>>
  BY <1>6 DEF Open, Write, WriteFails, Reported, ReadHistory, Create, Enter, StartFlow, PlanFlow, EndFlow,
              Return, Review, Finalize, Prompt, Finish, process
<1> QED
  BY <1>1, <1>2, <1>3, <1>4, <1>5, <1>6 DEF Next

\* A run that goes on is active as before; one that ends was its last moment active.
LEMMA Activity ==
  ASSUME Typed, CallsFit, NEW c \in Calls, ByCall(c), NEW p \in Processes
  PROVE  Active(p)' \ {c} = Active(p) \ {c}
BY OnlyTheCaller DEF Same, Active

ListenerFits(p, c) ==
  /\ <<"lab", c>> \in listeners[p] => c \in Active(p)
  /\ <<"runtime", c>> \in listeners[p] => Home[c] = p /\ flow[c] = None

LEMMA ListenersFitKeeps ==
  ASSUME Typed, CallsFit, ListenersFit, Next
  PROVE  ListenersFit'
<1> USE CallsAssumption
<1>1. ASSUME NEW c \in Calls, ByCall(c), NEW p \in Processes, NEW b \in Calls \ {c}
      PROVE  ListenerFits(p, b)'
  <2>1. b \in Active(p)' <=> b \in Active(p)
    BY <1>1, Activity
  <2>2. flow'[b] = flow[b]
    BY <1>1, OnlyTheCaller DEF Same
  <2>3. listeners'[p] \ {<<"lab", c>>, <<"runtime", c>>} = listeners[p] \ {<<"lab", c>>, <<"runtime", c>>}
    <3> USE DEF Typed, ProcessTyped
    <3>1. CASE Open(c) \/ Write(c) \/ ReadHistory(c) \/ Create(c) \/ PlanFlow(c) \/ Load(c) \/ Assess(c)
               \/ Review(c) \/ Finalize(c) \/ Prompt(c) \/ Finish(c) \/ Evaluate(c)
      BY <3>1 DEF Open, Write, ReadHistory, Create, PlanFlow, Load, Assess, Review, Finalize, Prompt, Finish,
                  Evaluate, process
    <3>2. CASE WriteFails(c) \/ Reported(c) \/ Return(c)
      <4>1. Release(c) \/ listeners' = listeners
        BY <3>2 DEF WriteFails, Reported, Return
      <4>2. listeners' = listeners \/ listeners' = [listeners EXCEPT ![Home[c]] = @ \ {<<"lab", c>>}]
        BY <4>1 DEF Release
      <4> QED
        BY <4>2
    <3>3. CASE Enter(c)
      BY <3>3 DEF Enter
    <3>4. CASE StartFlow(c)
      BY <3>4 DEF StartFlow
    <3>5. CASE EndFlow(c)
      BY <3>5 DEF EndFlow
    <3> QED
      BY <1>1, <3>1, <3>2, <3>3, <3>4, <3>5 DEF ByCall
  <2>4. <<"lab", b>> \notin {<<"lab", c>>, <<"runtime", c>>} /\ <<"runtime", b>> \notin {<<"lab", c>>, <<"runtime", c>>}
    OBVIOUS
  <2>5. ListenerFits(p, b)
    BY DEF ListenersFit, ListenerFits
  <2> QED
    BY <2>1, <2>2, <2>3, <2>4, <2>5 DEF ListenerFits
<1>2. ASSUME NEW c \in Calls, ByCall(c), NEW p \in Processes PROVE ListenerFits(p, c)'
  <2> USE DEF Typed, ProcessTyped, CallTyped
  <2>0. ListenerFits(p, c) /\ CallFits(c)
    BY DEF ListenersFit, ListenerFits, CallsFit
  <2>1. CASE Open(c) \/ Write(c)
    BY <2>0, <2>1 DEF Open, Write, process, ListenerFits, Active
  <2>2. CASE Enter(c)
    <3>1. phase[c] = "creating" /\ UNCHANGED flow /\ c \notin Active(p)
      BY <2>2 DEF Enter, Ready, Active, Running
    <3>2. CASE listeners' = listeners
      BY <2>0, <3>1, <3>2 DEF ListenerFits
    <3>3. CASE listeners' # listeners
      <4>1. listeners' = [listeners EXCEPT ![Home[c]] = @ \cup {<<"lab", c>>}] /\ Becomes(c, "flow", <<>>)
            /\ Kind[c] # "eval"
        BY <2>2, <3>3, GoBecomes DEF Enter
      <4>2. Home[c] = p => c \in Active(p)'
        BY <4>1 DEF Active, Becomes, Running
      <4> QED
        BY <2>0, <3>1, <4>1, <4>2 DEF ListenerFits
    <3> QED
      BY <3>2, <3>3
  <2>3. CASE WriteFails(c) \/ Reported(c) \/ Return(c)
    <3>0. UNCHANGED flow
      BY <2>3 DEF WriteFails, Reported, Return
    <3>1. CASE Release(c)
      <4>1. CASE Kind[c] = "eval"
        BY <2>0, <3>0, <3>1, <4>1 DEF Release, ListenerFits, Active
      <4>2. CASE Kind[c] # "eval"
        <5>1. listeners' = [listeners EXCEPT ![Home[c]] = @ \ {<<"lab", c>>}]
          BY <3>1, <4>2 DEF Release
        <5> QED
          BY <2>0, <3>0, <5>1 DEF ListenerFits, Active
      <4> QED
        BY <4>1, <4>2
    <3>2. CASE listeners' = listeners /\ phase[c] # "reporting" /\ WriteFails(c)
      <4>1. c \in Active(p) => c \in Active(p)'
        <5>1. CASE phase[c] \in Guarded
          <6>1. phase'[c] = "reporting"
            BY <3>2, <5>1, GoBecomes DEF WriteFails, Fail, Becomes
          <6> QED
            BY <6>1 DEF Active, Running
        <5>2. CASE phase[c] \notin Guarded
          BY <2>0, <3>2, <5>2 DEF Active, Running, Guarded, CallFits, WriteFails, Owed
        <5> QED
          BY <5>1, <5>2
      <4> QED
        BY <2>0, <3>0, <3>2, <4>1 DEF ListenerFits
    <3> QED
      BY <2>3, <3>1, <3>2 DEF WriteFails, Reported, Return
  <2>4. CASE StartFlow(c)
    <3>1. /\ Becomes(c, "planning", <<>>) /\ phase[c] = "flow" /\ flow' = flow
          /\ listeners' = [listeners EXCEPT ![Home[c]] = @ \cup {<<"runtime", c>>}]
      BY <2>4, GoBecomes DEF StartFlow
    <3>2. c \in Active(p) => c \in Active(p)'
      BY <3>1 DEF Active, Running, Becomes
    <3>3. flow[c] = None
      BY <2>0, <3>1 DEF CallFits
    <3> QED
      BY <2>0, <3>1, <3>2, <3>3 DEF ListenerFits
  <2>5. CASE EndFlow(c)
    <3>1. /\ Becomes(c, "reporting", Failures) \/ Becomes(c, "assessing", <<>>)
          /\ listeners' = [listeners EXCEPT ![Home[c]] = @ \ {<<"runtime", c>>}]
      BY <2>5, GoBecomes DEF EndFlow, Fail
    <3>2. c \in Active(p) => c \in Active(p)'
      BY <3>1 DEF Active, Running, Becomes
    <3>3. <<"runtime", c>> \notin listeners'[p]
      BY <2>0, <3>1 DEF ListenerFits
    <3> QED
      BY <2>0, <3>1, <3>2, <3>3 DEF ListenerFits
  <2>6. CASE ReadHistory(c) \/ Create(c) \/ Review(c) \/ Finalize(c) \/ Prompt(c) \/ Finish(c) \/ Evaluate(c)
    <3>1. UNCHANGED <<listeners, flow>>
      BY <2>6 DEF ReadHistory, Create, Review, Finalize, Prompt, Finish, Evaluate, process
    <3>2. c \notin Active(p)
      BY <2>0, <2>6 DEF ReadHistory, Create, Review, Finalize, Prompt, Finish, Evaluate, Ready, Begins,
                        Active, Running, CallFits
    <3> QED
      BY <2>0, <3>1, <3>2 DEF ListenerFits
  <2>7. CASE PlanFlow(c) \/ Load(c) \/ Assess(c)
    <3>1. UNCHANGED <<listeners, flow>>
      BY <2>7 DEF PlanFlow, Load, Assess, process
    <3>2. \/ Becomes(c, "reporting", Failures) \/ Becomes(c, "executing", <<>>) \/ Becomes(c, "saving", Results)
          \/ Becomes(c, "loading", <<>>) \/ Kind[c] = "eval"
      BY <2>7, GoBecomes DEF PlanFlow, Load, Assess, Fail
    <3>3. c \in Active(p) => c \in Active(p)'
      BY <3>2 DEF Active, Running, Becomes
    <3> QED
      BY <2>0, <3>1, <3>3 DEF ListenerFits
  <2> QED
    BY <1>2, <2>1, <2>2, <2>3, <2>4, <2>5, <2>6, <2>7 DEF ByCall
<1>3. ASSUME NEW p \in Processes, ReadSettles(p) PROVE ListenersFit'
  BY <1>3 DEF ReadSettles, call, ListenersFit, Active
<1>4. ASSUME NEW q \in Processes, Crash(q) PROVE ListenersFit'
  <2> SUFFICES ASSUME NEW p \in Processes, NEW c \in Calls PROVE ListenerFits(p, c)'
    BY DEF ListenersFit, ListenerFits
  <2>0. ListenerFits(p, c)
    BY DEF ListenersFit, ListenerFits
  <2>1. CASE p = q
    BY <1>4, <2>1 DEF Crash, ListenerFits, Typed, ProcessTyped
  <2>2. CASE p # q
    <3>1. listeners'[p] = listeners[p] /\ flow' = flow
      BY <1>4, <2>2 DEF Crash, Typed, ProcessTyped
    <3>2. c \in Active(p) => c \in Active(p)'
      BY <1>4, <2>2 DEF Crash, Active
    <3> QED
      BY <2>0, <3>1, <3>2 DEF ListenerFits
  <2> QED
    BY <2>1, <2>2
<1>5. ASSUME NEW c \in Calls, ByCall(c) PROVE ListenersFit'
  <2>1. \A p \in Processes, b \in Calls : ListenerFits(p, b)'
    BY <1>1, <1>2, <1>5
  <2> QED
    BY <2>1 DEF ListenersFit, ListenerFits
<1> QED
  BY <1>3, <1>4, <1>5, ByCallOrProcess

-----------------------------------------------------------------------------
(* The environment *)

Mine(p) == {c \in Calls : Home[c] = p}

\* The environment of a process that another one's call does not touch.
LEMMA AloneElsewhere ==
  ASSUME Typed, CallsFit, NEW c \in Calls, ByCall(c), NEW p \in Processes, Home[c] # p, Alone(p),
         env'[p] = env[p]
  PROVE  Alone(p)'
<1>1. \A b \in Mine(p) : Same(b)
  BY OnlyTheCaller DEF Mine
<1>2. Active(p)' = Active(p)
  BY <1>1 DEF Active, Mine, Same
<1>3. \A b \in Active(p) : b \in Mine(p)
  BY DEF Active, Mine
<1> QED
  BY <1>1, <1>2, <1>3 DEF Alone, Mine, Same

\* A step in a run, or outside of one, that neither begins nor ends it.
LEMMA AloneStays ==
  ASSUME Typed, CallsFit, NEW c \in Calls, ByCall(c), NEW p \in Processes, Home[c] = p, Alone(p),
         env'[p] = env[p], saved'[c] = saved[c],
         c \in Active(p)' <=> c \in Active(p),
         phase'[c] \in {"flow", "planning", "executing"} => phase[c] \in {"flow", "planning", "executing"},
         models'[c] = models[c] \/ models'[c] = Requirement[c]
  PROVE  Alone(p)'
<1>1. Active(p)' = Active(p)
  BY Activity
<1>2. \A b \in Calls \ {c} : Same(b)
  BY OnlyTheCaller
<1>3. \A b \in Active(p) : saved'[b] = saved[b] /\ b \in Calls
  BY <1>2 DEF Same, Active
<1>4. ASSUME NEW b \in Calls, Home[b] = p
      PROVE  /\ phase'[b] \in {"flow", "planning", "executing"} => env[p] = Requirement[b]
             /\ models'[b] \in {None, Requirement[b]}
  BY <1>2, <1>4 DEF Alone, Same
<1> QED
  BY <1>1, <1>3, <1>4 DEF Alone

LEMMA AloneRelease ==
  ASSUME Typed, CallsFit, NEW c \in Calls, ByCall(c), NEW p \in Processes, Home[c] = p, Alone(p),
         Release(c), phase[c] \in {"saving", "reporting"}, phase'[c] \notin Running, models' = models
  PROVE  Alone(p)'
<1>1. CASE Kind[c] = "eval"
  <2>1. c \notin Active(p)' /\ c \notin Active(p)
    BY <1>1 DEF Active
  <2> QED
    BY <1>1, <2>1, AloneStays DEF Release, Running
<1>2. CASE Kind[c] # "eval"
  <2>1. c \in Active(p) /\ c \notin Active(p)'
    BY <1>2 DEF Active, Running
  <2>2. Active(p) = {c}
    BY <2>1 DEF Alone
  <2>3. Active(p)' = {}
    BY <2>1, <2>2, Activity
  <2>4. env'[p] = Original
    BY <1>2, <2>1 DEF Release, Alone, Typed, ProcessTyped
  <2>5. ASSUME NEW b \in Calls, Home[b] = p, phase'[b] \in {"flow", "planning", "executing"} PROVE FALSE
    <3>1. b # c
      BY <2>5 DEF Running
    <3>2. phase[b] = phase'[b]
      BY <3>1, OnlyTheCaller DEF Same
    <3>3. b \in Active(p)
      BY <2>5, <3>2 DEF Active, Running, CallsFit, CallFits
    <3> QED
      BY <2>2, <3>1, <3>3
  <2>6. \A b \in Calls : Home[b] = p => models'[b] \in {None, Requirement[b]}
    BY DEF Alone
  <2> QED
    BY <2>3, <2>4, <2>5, <2>6 DEF Alone
<1> QED
  BY <1>1, <1>2

LEMMA AloneEnter ==
  ASSUME Typed, CallsFit, NEW c \in Calls, Enter(c), NEW p \in Processes, Home[c] = p, Alone(p),
         overlapped' \cap Mine(p) = {}
  PROVE  Alone(p)'
<1> USE DEF Typed, CallTyped, ProcessTyped
<1>1. Active(p) = {} /\ c \notin Active(p)
  <2>1. c \notin overlapped'
    BY DEF Mine
  <2> QED
    BY <2>1 DEF Enter
<1>2. env[p] = Original /\ saved'[c] = Original /\ models' = models /\ Kind[c] # "eval"
  BY <1>1 DEF Alone, Enter
<1>3. \A b \in Active(p)' : b = c
  BY <1>1, Activity DEF ByCall
<1>4. \/ Becomes(c, "reporting", Failures)
      \/ Becomes(c, "flow", <<>>) /\ env'[p] = Requirement[c]
  BY GoBecomes DEF Enter, Fail
<1>5. c \in Active(p)'
  BY <1>2, <1>4 DEF Active, Becomes, Running
<1>6. ASSUME NEW b \in Calls, Home[b] = p
      PROVE  /\ phase'[b] \in {"flow", "planning", "executing"} => env'[p] = Requirement[b]
             /\ models'[b] \in {None, Requirement[b]}
  <2>1. CASE b = c
    BY <1>2, <1>4, <2>1 DEF Becomes, Alone
  <2>2. CASE b # c
    <3>1. phase'[b] = phase[b]
      BY <2>2, OnlyTheCaller DEF Same, ByCall
    <3>2. phase[b] \notin {"flow", "planning", "executing"}
      BY <1>1, <1>6 DEF Active, Running, CallsFit, CallFits
    <3> QED
      BY <1>2, <1>6, <3>1, <3>2 DEF Alone
  <2> QED
    BY <2>1, <2>2
<1> QED
  BY <1>2, <1>3, <1>5, <1>6 DEF Alone

LEMMA EnvironmentFitsKeeps ==
  ASSUME Typed, CallsFit, EnvironmentFits, Next
  PROVE  EnvironmentFits'
<1> USE CallsAssumption DEF Typed, CallTyped, ProcessTyped, GhostTyped
<1>1. ASSUME NEW c \in Calls, ByCall(c), NEW p \in Processes, overlapped' \cap Mine(p) = {} PROVE Alone(p)'
  <2>0. CallFits(c)
    BY DEF CallsFit
  <2>1. Alone(p)
    <3>1. overlapped \subseteq overlapped'
      BY <1>1 DEF ByCall, Open, Write, WriteFails, Reported, ReadHistory, Create, Enter, StartFlow, PlanFlow,
                  EndFlow, Load, Assess, Return, Review, Finalize, Prompt, Finish, Evaluate, ghosts
    <3> QED
      BY <1>1, <3>1 DEF EnvironmentFits, Mine
  <2>2. Home[c] # p => env'[p] = env[p]
    BY <1>1 DEF ByCall, Open, Write, WriteFails, Reported, ReadHistory, Create, Enter, StartFlow, PlanFlow,
                EndFlow, Load, Assess, Return, Review, Finalize, Prompt, Finish, Evaluate, process, Release
  <2>3. CASE Home[c] # p
    BY <1>1, <2>1, <2>2, <2>3, AloneElsewhere
  <2>4. CASE Home[c] = p
    <3>1. CASE Enter(c)
      BY <1>1, <2>1, <2>4, <3>1, AloneEnter
    <3>2. CASE Reported(c) \/ Return(c)
      <4>1. Release(c) /\ models' = models /\ phase[c] \in {"saving", "reporting"}
        BY <3>2 DEF Reported, Return, Ready, ghosts
      <4>2. Becomes(c, "failed", <<>>) \/ Becomes(c, "showing", <<"flowText">>) \/ Becomes(c, "returned", <<>>)
        BY <3>2, GoBecomes DEF Reported, Return
      <4>3. phase'[c] \notin Running
        BY <4>2 DEF Becomes, Running
      <4> QED
        BY <1>1, <2>1, <2>4, <4>1, <4>3, AloneRelease
    <3>3. CASE WriteFails(c)
      <4>1. CASE phase[c] = "reporting"
        <5>1. Becomes(c, "rejected", <<>>) /\ Release(c) /\ models' = models
          BY <3>3, <4>1, GoBecomes DEF WriteFails, Guarded
        <5> QED
          BY <1>1, <2>1, <2>4, <4>1, <5>1, AloneRelease DEF Becomes, Running
      <4>2. CASE phase[c] # "reporting"
        <5>1. UNCHANGED <<env, saved, models>>
          BY <3>3, <4>2 DEF WriteFails
        <5>2. CASE phase[c] \in Guarded
          <6>1. phase'[c] = "reporting"
            BY <3>3, <5>2, GoBecomes DEF WriteFails, Fail, Becomes
          <6>2. c \in Active(p)' <=> c \in Active(p)
            BY <2>0, <5>2, <6>1 DEF Active, Running, Guarded, CallFits
          <6> QED
            BY <1>1, <2>1, <2>4, <5>1, <6>1, <6>2, AloneStays
        <5>3. CASE phase[c] \notin Guarded
          <6>1. phase'[c] = "rejected"
            BY <3>3, <5>3, GoBecomes DEF WriteFails, Becomes
          <6>2. c \notin Active(p)' /\ c \notin Active(p)
            BY <2>0, <3>3, <4>2, <5>3, <6>1 DEF Active, Running, Guarded, CallFits, WriteFails, Owed
          <6> QED
            BY <1>1, <2>1, <2>4, <5>1, <6>1, <6>2, AloneStays
        <5> QED
          BY <5>2, <5>3
      <4> QED
        BY <4>1, <4>2
    <3>4. CASE EndFlow(c)
      <4>1. UNCHANGED <<env, saved>> /\ phase[c] = "executing" /\ phase'[c] \in {"assessing", "reporting"}
        BY <3>4, GoBecomes DEF EndFlow, Fail, Becomes
      <4>2. c \in Active(p)' <=> c \in Active(p)
        BY <4>1 DEF Active, Running
      <4>3. models'[c] = models[c] \/ models'[c] = Requirement[c]
        BY <2>1, <2>4, <3>4, <4>1 DEF EndFlow, Alone
      <4> QED
        BY <1>1, <2>1, <2>4, <4>1, <4>2, <4>3, AloneStays
    <3>5. CASE StartFlow(c) \/ PlanFlow(c)
      <4>1. /\ UNCHANGED <<env, saved, models>> /\ phase[c] \in {"flow", "planning"}
            /\ phase'[c] \in {"planning", "executing", "reporting"}
        BY <3>5, GoBecomes DEF StartFlow, PlanFlow, Fail, Becomes, process, ghosts
      <4>2. c \in Active(p)' <=> c \in Active(p)
        BY <4>1 DEF Active, Running
      <4> QED
        BY <1>1, <2>1, <2>4, <4>1, <4>2, AloneStays
    <3>6. CASE Load(c) \/ Assess(c)
      <4>0. \/ Becomes(c, IF Kind[c] = "eval" THEN "comparing" ELSE "loading", <<>>)
            \/ Becomes(c, "saving", Results) \/ Becomes(c, "reporting", Failures)
        BY <3>6, GoBecomes DEF Load, Assess, Fail
      <4>1. /\ UNCHANGED <<env, saved, models>> /\ phase[c] \in {"assessing", "evaluating", "loading"}
            /\ phase'[c] \in {"comparing", "loading", "saving", "reporting"}
            /\ Kind[c] # "eval" => phase'[c] # "comparing"
        BY <3>6, <4>0 DEF Load, LoadCached, Assess, Becomes, process, ghosts
      <4>2. c \in Active(p)' <=> c \in Active(p)
        BY <2>0, <4>1 DEF Active, Running, CallFits
      <4> QED
        BY <1>1, <2>1, <2>4, <4>1, <4>2, AloneStays
    <3>7. CASE Open(c) \/ Write(c)
      <4>1. UNCHANGED <<env, saved, models, phase>>
        BY <3>7 DEF Open, Write, process
      <4>2. c \in Active(p)' <=> c \in Active(p)
        BY <4>1 DEF Active
      <4> QED
        BY <1>1, <2>1, <2>4, <4>1, <4>2, AloneStays
    <3>8. CASE ReadHistory(c) \/ Create(c) \/ Review(c) \/ Finalize(c) \/ Prompt(c) \/ Finish(c)
      <4>0. \/ Becomes(c, "caching", <<"requirements">>) \/ Becomes(c, "recording", <<"evaluations">>)
            \/ Becomes(c, "creating", <<"session", "last">>) \/ Becomes(c, "reviewing", <<"selfReview">>)
            \/ Becomes(c, "rejected", <<>>) \/ Becomes(c, "finalizing", <<"feedback">>)
            \/ Becomes(c, "stopped", <<>>) \/ Becomes(c, "prompting", Prompts) \/ Becomes(c, "done", <<>>)
        BY <3>8, GoBecomes DEF ReadHistory, Create, Review, Finalize, Prompt, Finish
      <4>1. /\ UNCHANGED <<env, saved, models>>
            /\ phase[c] \in {"idle", "caching", "evaluated", "showing", "reviewing", "finalizing",
                             "prompting", "closing"}
            /\ phase'[c] \notin Running
        BY <3>8, <4>0 DEF ReadHistory, Create, Review, Finalize, Prompt, Finish, Becomes, process, ghosts,
                               Ready, Begins, Running
      <4>2. c \notin Active(p)' /\ c \notin Active(p)
        BY <4>1 DEF Active, Running
      <4> QED
        BY <1>1, <2>1, <2>4, <4>1, <4>2, AloneStays DEF Running
    <3>9. CASE Evaluate(c)
      <4>1. UNCHANGED <<env, saved, models>> /\ Kind[c] = "eval"
        BY <2>0, <3>9 DEF Evaluate, Ready, CallFits, process, ghosts
      <4>2. c \notin Active(p)' /\ c \notin Active(p)
        BY <4>1 DEF Active
      <4>0. \/ Becomes(c, "evaluating", <<>>) \/ Becomes(c, "reporting", Failures)
            \/ Becomes(c, "evaluated", Evaluation) \/ Becomes(c, "closing", <<"artifacts">>)
        BY <3>9, GoBecomes DEF Evaluate, Fail
      <4>3. phase'[c] \notin {"flow", "planning", "executing"}
        BY <4>0 DEF Becomes
      <4> QED
        BY <1>1, <2>1, <2>4, <4>1, <4>2, <4>3, AloneStays
    <3> QED
      BY <1>1, <3>1, <3>2, <3>3, <3>4, <3>5, <3>6, <3>7, <3>8, <3>9 DEF ByCall
  <2> QED
    BY <2>3, <2>4
<1>2. ASSUME NEW q \in Processes, ReadSettles(q) PROVE EnvironmentFits'
  <2>1. UNCHANGED <<phase, saved, env, models, overlapped>>
    BY <1>2 DEF ReadSettles, call, ghosts
  <2>2. \A p \in Processes : Active(p)' = Active(p)
    BY <2>1 DEF Active
  <2>3. \A p \in Processes : Alone(p) => Alone(p)'
    BY <2>1, <2>2 DEF Alone
  <2> QED
    BY <2>1, <2>3 DEF EnvironmentFits
<1>3. ASSUME NEW q \in Processes, Crash(q), NEW p \in Processes, overlapped' \cap Mine(p) = {} PROVE Alone(p)'
  <2>1. CASE p = q
    <3>1. Active(p)' = {}
      BY <1>3, <2>1 DEF Crash, Active, Running, Ended
    <3>2. env'[p] = Original /\ \A c \in Calls : Home[c] = p => models'[c] = None
      BY <1>3, <2>1 DEF Crash
    <3>3. \A c \in Calls : Home[c] = p => phase'[c] \notin {"flow", "planning", "executing"}
      BY <1>3, <2>1 DEF Crash, Ended
    <3> QED
      BY <3>1, <3>2, <3>3 DEF Alone
  <2>2. CASE p # q
    <3>1. \A c \in Calls : Home[c] = p => phase'[c] = phase[c] /\ models'[c] = models[c]
      BY <1>3, <2>2 DEF Crash
    <3>2. Active(p)' = Active(p)
      BY <3>1 DEF Active
    <3>3. env'[p] = env[p] /\ saved' = saved
      BY <1>3, <2>2 DEF Crash
    <3>4. overlapped \cap Mine(p) = {}
      BY <1>3, <2>2 DEF Crash, Mine
    <3>5. Alone(p)
      BY <3>4 DEF EnvironmentFits, Mine
    <3> QED
      BY <3>1, <3>2, <3>3, <3>5 DEF Alone
  <2> QED
    BY <2>1, <2>2
<1>4. ASSUME NEW c \in Calls, ByCall(c) PROVE EnvironmentFits'
  BY <1>1, <1>4 DEF EnvironmentFits, Mine
<1>5. ASSUME NEW q \in Processes, Crash(q) PROVE EnvironmentFits'
  BY <1>3, <1>5 DEF EnvironmentFits, Mine
<1> QED
  BY <1>2, <1>4, <1>5, ByCallOrProcess

-----------------------------------------------------------------------------
(* The histories *)

\* A step that writes no history.
LEMMA HistoryStays ==
  ASSUME Typed, NEW h \in Histories, HistoryFits(h), histories'[h] = histories[h], used'[h] = used[h],
         h \notin disturbed' => h \notin disturbed,
         \A b \in Calls : Writes(b, h)' => Writes(b, h) /\ read'[b] = read[b]
  PROVE  HistoryFits(h)'
BY DEF HistoryFits

LEMMA OpenKeepsHistory ==
  ASSUME Typed, CallsFit, NEW c \in Calls, Open(c), NEW h \in Histories, HistoryFits(h)
  PROVE  HistoryFits(h)'
<1> USE DEF Typed, CallTyped, CallsFit
<1>0. /\ todo[c] # <<>> /\ open' = [open EXCEPT ![c] = TRUE] /\ ~open[c]
      /\ UNCHANGED <<todo, read, used>> /\ Place(c, Head(todo[c]), TRUE)
      /\ disturbed' = IF Head(todo[c]) \in Histories /\ histories[Head(todo[c])] # read[c]
                        THEN disturbed \cup {Head(todo[c])} ELSE disturbed
  BY DEF Open
<1>1. \A b \in Calls : b # c => Writes(b, h)' = Writes(b, h)
  BY <1>0 DEF Writes
<1>2. histories'[h] = IF Head(todo[c]) = h THEN Torn ELSE histories[h]
  BY <1>0, Placed
<1>3. CASE Head(todo[c]) # h
  <2>1. Writes(c, h)' => Writes(c, h)
    BY <1>0, <1>3 DEF Writes
  <2> QED
    BY <1>0, <1>1, <1>2, <1>3, <2>1, HistoryStays
<1>4. CASE Head(todo[c]) = h
  <2>1. histories'[h] = Torn /\ used' = used /\ Distinct(used[h])
    BY <1>0, <1>2, <1>4 DEF HistoryFits
  <2>2. ASSUME h \notin disturbed'
        PROVE  /\ \A b \in Calls : Writes(b, h)' => b = c
               /\ read'[c] = Cut(used'[h])
    <3>1. histories[h] = read[c] /\ h \notin disturbed
      BY <1>0, <1>4, <2>2
    <3>2. histories[h] # Torn
      BY <3>1, ValuesAssumption
    <3>3. histories[h] = Cut(used[h]) /\ \A b \in Calls : ~Writes(b, h)
      BY <3>1, <3>2 DEF HistoryFits
    <3> QED
      BY <1>0, <1>1, <3>1, <3>3
  <2> QED
    BY <2>1, <2>2 DEF HistoryFits
<1> QED
  BY <1>3, <1>4

LEMMA WriteKeepsHistory ==
  ASSUME Typed, CallsFit, NEW c \in Calls, Write(c), NEW h \in Histories, HistoryFits(h)
  PROVE  HistoryFits(h)'
<1> USE DEF Typed, CallTyped, GhostTyped
<1> DEFINE path == Head(todo[c])
<1>0. /\ todo[c] # <<>> /\ open[c] /\ open' = [open EXCEPT ![c] = FALSE]
      /\ todo' = [todo EXCEPT ![c] = Tail(@)] /\ read' = read
      /\ disturbed' = IF path \in Histories /\ ~IsTorn(c, path) THEN disturbed \cup {path} ELSE disturbed
  BY DEF Write
<1>9. Place(c, path, FALSE) \/ (~IsTorn(c, path) /\ Place(c, path, TRUE))
  BY DEF Write
<1>8. used'[h] = IF h = path THEN <<Entry(c, h)>> \o Others(Entry(c, h), used[h]) ELSE used[h]
  BY DEF Write
<1>1. \A b \in Calls : b # c => Writes(b, h)' = Writes(b, h)
  BY <1>0 DEF Writes
<1>2. ~Writes(c, h)'
  BY <1>0 DEF Writes
<1>7. CallFits(c)
  BY DEF CallsFit
<1>3. CASE path # h
  <2>1. histories'[h] = histories[h]
    BY <1>0, <1>3, <1>7, <1>9, Placed
  <2> QED
    BY <1>0, <1>1, <1>2, <1>3, <1>8, <2>1, HistoryStays
<1>4. CASE path = h
  <2> DEFINE e == Entry(c, h)
  <2>1. e \in Nat /\ read[c] \in Seq(Nat) /\ Distinct(read[c]) /\ used[h] \in Seq(Nat) /\ Distinct(used[h])
    BY <1>0, <1>4, <1>7, EntryTyped DEF CallFits, HistoryFits
  <2>2. used'[h] = <<e>> \o Others(e, used[h])
    BY <1>4, <1>8
  <2>3. histories'[h] = Torn \/ histories'[h] = Record(e, read[c])
    BY <1>0, <1>4, <1>7, <1>9, Placed
  <2>4. Place(c, path, FALSE) => histories'[h] = Record(e, read[c])
    BY <1>0, <1>4, <1>7, Placed
  <2> HIDE DEF e
  <2>5. Distinct(used'[h])
    BY <2>1, <2>2, OthersFacts
  <2>6. histories'[h] # Torn => Len(histories'[h]) <= MaxHistory /\ Distinct(histories'[h])
    BY <2>1, <2>3, RecordTyped
  <2>7. ASSUME h \notin disturbed'
        PROVE  histories'[h] = Cut(used'[h]) /\ \A b \in Calls : ~Writes(b, h)'
    <3>1. IsTorn(c, path) /\ h \notin disturbed
      BY <1>0, <1>4, <2>7
    <3>2. Writes(c, h)
      BY <1>0, <1>4 DEF Writes
    <3>3. read[c] = Cut(used[h]) /\ \A b \in Calls : Writes(b, h) => b = c
      BY <3>1, <3>2 DEF HistoryFits
    <3>4. histories'[h] = Record(e, Cut(used[h]))
      BY <1>9, <2>4, <3>1, <3>3
    <3>5. histories'[h] = Cut(used'[h])
      BY <2>1, <2>2, <3>4, RecordOfCut
    <3> QED
      BY <1>1, <1>2, <3>3, <3>5
  <2> QED
    BY <2>5, <2>6, <2>7 DEF HistoryFits
<1> QED
  BY <1>3, <1>4

LEMMA HistoriesFitKeeps ==
  ASSUME Typed, CallsFit, HistoriesFit, Next
  PROVE  HistoriesFit'
<1> USE DEF Typed, CallTyped
<1>1. ASSUME NEW c \in Calls, Open(c) \/ Write(c) PROVE HistoriesFit'
  BY <1>1, OpenKeepsHistory, WriteKeepsHistory DEF HistoriesFit
<1>2. ASSUME NEW c \in Calls, ByCall(c), ~Open(c), ~Write(c) PROVE HistoriesFit'
  <2>1. open'[c] = FALSE
    <3>1. CASE WriteFails(c) \/ Reported(c) \/ ReadHistory(c) \/ Create(c) \/ Enter(c) \/ StartFlow(c)
      BY <3>1 DEF WriteFails, Reported, ReadHistory, Create, Enter, StartFlow, Fail, Go
    <3>2. CASE PlanFlow(c) \/ EndFlow(c) \/ Load(c) \/ Assess(c) \/ Return(c)
      BY <3>2 DEF PlanFlow, EndFlow, Load, Assess, Return, Fail, Go
    <3>3. CASE Review(c) \/ Finalize(c) \/ Prompt(c) \/ Finish(c) \/ Evaluate(c)
      BY <3>3 DEF Review, Finalize, Prompt, Finish, Evaluate, Fail, Go
    <3> QED
      BY <1>2, <3>1, <3>2, <3>3 DEF ByCall
  <2>2. UNCHANGED <<histories, used>> /\ disturbed \subseteq disturbed'
    BY <1>2 DEF ByCall, WriteFails, Reported, ReadHistory, Create, Enter, StartFlow, PlanFlow,
                EndFlow, Load, Assess, Return, Review, Finalize, Prompt, Finish, Evaluate, disk, ghosts
  <2>3. \A b \in Calls, h \in Histories : Writes(b, h)' => Writes(b, h) /\ read'[b] = read[b]
    <3> SUFFICES ASSUME NEW b \in Calls, NEW h \in Histories, Writes(b, h)'
                 PROVE  Writes(b, h) /\ read'[b] = read[b]
      OBVIOUS
    <3>1. b # c
      BY <2>1 DEF Writes
    <3> QED
      BY <1>2, <3>1, OnlyTheCaller DEF Same, Writes
  <2> QED
    BY <2>2, <2>3, HistoryStays DEF HistoriesFit
<1>3. ASSUME NEW p \in Processes, ReadSettles(p) PROVE HistoriesFit'
  BY <1>3 DEF ReadSettles, call, disk, ghosts, HistoriesFit, HistoryFits, Writes
<1>4. ASSUME NEW p \in Processes, Crash(p) PROVE HistoriesFit'
  <2>1. UNCHANGED <<histories, used, read>> /\ disturbed \subseteq disturbed'
    BY <1>4 DEF Crash, disk
  <2>2. ASSUME NEW b \in Calls, open'[b] PROVE open[b] /\ todo'[b] = todo[b]
    BY <1>4, <2>2 DEF Crash
  <2>3. \A b \in Calls, h \in Histories : Writes(b, h)' => Writes(b, h) /\ read'[b] = read[b]
    BY <2>1, <2>2 DEF Writes
  <2> QED
    BY <2>1, <2>3, HistoryStays DEF HistoriesFit
<1> QED
  BY <1>1, <1>2, <1>3, <1>4, ByCallOrProcess

-----------------------------------------------------------------------------
(* The files of a session *)

LEMMA NamesFacts ==
  /\ Names(<<>>) = {}
  /\ \A a : Names(<<a>>) = {a}
  /\ \A a, b : Names(<<a, b>>) = {a, b}
<1>1. ASSUME NEW a PROVE Names(<<a>>) = {a}
  BY DEF Names
<1>2. ASSUME NEW a, NEW b PROVE Names(<<a, b>>) = {a, b}
  <2>1. DOMAIN <<a, b>> = {1, 2} /\ <<a, b>>[1] = a /\ <<a, b>>[2] = b
    OBVIOUS
  <2> QED
    BY <2>1, Zenon DEF Names
<1>3. Names(<<>>) = {}
  BY DEF Names
<1> QED
  BY <1>1, <1>2, <1>3

\* A phase whose files are written leads to one that expects no more.
Onward(p, s, next, paths) ==
  /\ Reached(p) \subseteq Reached(next)
  /\ Needed(next) \cup (Script(next) \ Names(paths)) \subseteq Needed(p) \cup (Script(p) \ Names(s))
  /\ Names(paths) \cap (Reached(p) \ Names(s)) = {}

LEMMA OnwardKeepsFiles ==
  ASSUME NEW c \in Calls, FilesFit(c), files' = files, dir'[c] = dir[c],
         NEW next, NEW paths, Becomes(c, next, paths), Onward(phase[c], todo[c], next, paths)
  PROVE  FilesFit(c)'
<1> DEFINE f == files[dir[c]]
<1>1. files'[dir'[c]] = f
  OBVIOUS
<1>2. /\ f.torn \cup f.whole \subseteq Reached(phase[c])
      /\ Needed(phase[c]) \cup (Script(phase[c]) \ Names(todo[c])) \subseteq f.whole
      /\ f.whole \cap Names(todo[c]) = {} /\ Consistent(f.whole)
  BY DEF FilesFit
<1>3. /\ f.torn \cup f.whole \subseteq Reached(next)
      /\ Needed(next) \cup (Script(next) \ Names(paths)) \subseteq f.whole
      /\ f.whole \cap Names(paths) = {}
  BY <1>2 DEF Onward
<1> HIDE DEF f
<1> QED
  BY <1>1, <1>2, <1>3 DEF FilesFit, Becomes

LEMMA FilesStay ==
  ASSUME NEW b \in Calls, FilesFit(b), files'[dir[b]] = files[dir[b]], Same(b)
  PROVE  FilesFit(b)'
BY DEF FilesFit, Same

LEMMA OpenKeepsFiles ==
  ASSUME Typed, CallsFit, NEW c \in Calls, Open(c), FilesFit(c)
  PROVE  FilesFit(c)'
<1> DEFINE path == Head(todo[c])  f == files[dir[c]]
<1>1. /\ todo[c] # <<>> /\ Place(c, path, TRUE) /\ UNCHANGED <<dir, todo, phase>> /\ CallFits(c)
  BY DEF Open, CallsFit
<1>2. /\ path \notin Shared => files'[dir[c]] = [torn |-> f.torn \cup {path}, whole |-> f.whole \ {path}]
      /\ path \in Shared => files'[dir[c]] = files[dir[c]]
  <2>1. path \in Shared => files' = files
    BY <1>1 DEF Place, Shared, Histories
  <2> QED
    BY <1>1, <2>1, Placed
<1>3. path \notin Shared => path \in Reached(phase[c])
  BY <1>1, Places DEF Next1, Reached, Shared, Paths
<1>4. path \in Names(todo[c])
  <2>1. todo[c] \in Lists
    BY DEF Typed, CallTyped
  <2>2. path = todo[c][1] /\ 1 \in DOMAIN todo[c]
    BY <1>1, <2>1 DEF Lists
  <2> QED
    BY <2>2 DEF Names
<1>5. /\ f.torn \cup f.whole \subseteq Reached(phase[c])
      /\ Needed(phase[c]) \cup (Script(phase[c]) \ Names(todo[c])) \subseteq f.whole
      /\ f.whole \cap Names(todo[c]) = {} /\ Consistent(f.whole)
  BY DEF FilesFit
<1>6. f.whole \ {path} = f.whole
  BY <1>4, <1>5
<1>7. /\ files'[dir[c]].whole = f.whole
      /\ files'[dir[c]].torn \cup files'[dir[c]].whole \subseteq Reached(phase[c])
      /\ path \notin Shared => path \in files'[dir[c]].torn
  <2>1. CASE path \in Shared
    <3>1. files'[dir[c]] = f
      BY <1>2, <2>1
    <3> HIDE DEF f
    <3> QED
      BY <1>5, <2>1, <3>1
  <2>2. CASE path \notin Shared
    <3>1. files'[dir[c]].torn = f.torn \cup {path} /\ files'[dir[c]].whole = f.whole \ {path}
      BY <1>2, <2>2
    <3> HIDE DEF f
    <3> QED
      BY <1>3, <1>5, <1>6, <2>2, <3>1
  <2> QED
    BY <2>1, <2>2
<1> HIDE DEF f
<1> QED
  BY <1>1, <1>5, <1>7 DEF FilesFit

LEMMA WriteKeepsFiles ==
  ASSUME Typed, CallsFit, NEW c \in Calls, Write(c), dir[c] # None, FilesFit(c)
  PROVE  FilesFit(c)'
<1> DEFINE path == Head(todo[c])  rest == Tail(todo[c])  f == files[dir[c]]
<1>1. /\ todo[c] # <<>> /\ UNCHANGED <<dir, phase>> /\ CallFits(c) /\ open[c]
      /\ open'[c] = FALSE /\ todo'[c] = rest
  BY DEF Write, CallsFit, Typed, CallTyped
<1>2. /\ path \notin Shared => files'[dir[c]] = [torn |-> f.torn \ {path}, whole |-> f.whole \cup {path}]
      /\ path \in Shared => files'[dir[c]] = files[dir[c]]
  <2>1. Place(c, path, FALSE) \/ (~IsTorn(c, path) /\ Place(c, path, TRUE))
    BY DEF Write
  <2>2. path \in Shared => files' = files
    BY <2>1 DEF Place, Shared, Histories
  <2>3. path \notin Shared => IsTorn(c, path)
    BY <1>1 DEF FilesFit, IsTorn, Shared, Histories
  <2> QED
    BY <1>1, <2>1, <2>2, <2>3, Placed
<1>3. path \notin Shared => path \in Reached(phase[c])
  BY <1>1, Places DEF Next1, Reached, Shared, Paths
<1>4. /\ Names(todo[c]) = Names(rest) \cup {path} /\ path \notin Names(rest)
  <2>1. todo[c] \in Lists
    BY DEF Typed, CallTyped
  <2>2. \A a : Head(<<a>>) = a /\ Tail(<<a>>) = <<>>
    OBVIOUS
  <2>3. \A a, b : Head(<<a, b>>) = a /\ Tail(<<a, b>>) = <<b>>
    OBVIOUS
  <2>4. \/ \E a : todo[c] = <<a>>
        \/ \E a, b : a # b /\ todo[c] = <<a, b>>
    <3>1. /\ "session" # "last" /\ "result" # "designs" /\ "failure" # "artifacts" /\ "prompt" # "artifacts"
      OBVIOUS
    <3> QED
      BY <1>1, <2>1, <3>1, Zenon DEF Lists
  <2>5. CASE \E a : todo[c] = <<a>>
    BY <2>2, <2>5, NamesFacts
  <2>6. CASE \E a, b : a # b /\ todo[c] = <<a, b>>
    BY <2>3, <2>6, NamesFacts
  <2> QED
    BY <2>4, <2>5, <2>6
<1>5. /\ f.torn \cup f.whole \subseteq Reached(phase[c])
      /\ Needed(phase[c]) \cup (Script(phase[c]) \ Names(todo[c])) \subseteq f.whole
      /\ f.whole \cap Names(todo[c]) = {} /\ Consistent(f.whole)
  BY DEF FilesFit
<1>6. path \in Shared => path \notin Script(phase[c])
  BY <1>1, Places DEF Next1, Script, Shared
<1>7. path \notin Shared => Consistent(f.whole \cup {path})
  <2>1. CASE path # "artifacts"
    BY <1>5, <2>1 DEF Consistent
  <2>2. CASE path = "artifacts"
    <3>1. rest = <<>> /\ phase[c] \in {"reporting", "closing", "prompting"}
      BY <1>1, <2>2, Places DEF Next1
    <3>2. Names(todo[c]) = {"artifacts"}
      BY <1>4, <2>2, <3>1, NamesFacts
    <3>3. CASE phase[c] = "reporting"
      BY <1>5, <3>2, <3>3 DEF Script, Consistent
    <3>4. CASE phase[c] = "closing"
      BY <1>5, <3>2, <3>4 DEF Needed, Consistent
    <3>5. CASE phase[c] = "prompting"
      BY <1>5, <3>2, <3>5 DEF Needed, Script, Consistent
    <3> QED
      BY <3>1, <3>3, <3>4, <3>5
  <2> QED
    BY <2>1, <2>2
<1> DEFINE g == files'[dir[c]]
<1>8. CASE path \in Shared
  <2>1. Needed(phase[c]) \cup (Script(phase[c]) \ Names(rest)) \subseteq f.whole /\ f.whole \cap Names(rest) = {}
    BY <1>4, <1>5, <1>6, <1>8
  <2>2. g = f
    BY <1>2, <1>8
  <2> HIDE DEF f
  <2> QED
    BY <1>1, <1>5, <2>1, <2>2 DEF FilesFit
<1>9. CASE path \notin Shared
  <2>1. g.torn = f.torn \ {path} /\ g.whole = f.whole \cup {path}
    BY <1>2, <1>9
  <2>2. /\ g.torn \cup g.whole \subseteq Reached(phase[c])
        /\ Needed(phase[c]) \cup (Script(phase[c]) \ Names(rest)) \subseteq g.whole
        /\ g.whole \cap Names(rest) = {} /\ Consistent(g.whole)
    BY <1>3, <1>4, <1>5, <1>7, <1>9, <2>1
  <2> HIDE DEF f
  <2> QED
    BY <1>1, <2>2 DEF FilesFit
<1> QED
  BY <1>8, <1>9

\* The way on from a phase whose files are written.
LEMMA WaysOn ==
  ASSUME Typed, NEW c \in Calls, todo[c] = <<>>
  PROVE  /\ Onward(phase[c], todo[c], "rejected", <<>>)
         /\ phase[c] \in {"creating", "flow", "planning", "executing", "assessing", "loading", "comparing"} =>
              Onward(phase[c], todo[c], "reporting", Failures)
         /\ phase[c] = "reporting" => Onward(phase[c], todo[c], "failed", <<>>)
         /\ phase[c] = "evaluated" => Onward(phase[c], todo[c], "recording", <<"evaluations">>)
         /\ phase[c] = "creating" => /\ Onward(phase[c], todo[c], "flow", <<>>)
                                     /\ Onward(phase[c], todo[c], "evaluating", <<>>)
         /\ phase[c] = "flow" => Onward(phase[c], todo[c], "planning", <<>>)
         /\ phase[c] = "planning" => Onward(phase[c], todo[c], "executing", <<>>)
         /\ phase[c] = "executing" => Onward(phase[c], todo[c], "assessing", <<>>)
         /\ phase[c] \in {"assessing", "evaluating"} => /\ Onward(phase[c], todo[c], "loading", <<>>)
                                                        /\ Onward(phase[c], todo[c], "comparing", <<>>)
         /\ phase[c] = "loading" => Onward(phase[c], todo[c], "saving", Results)
         /\ phase[c] = "comparing" => Onward(phase[c], todo[c], "evaluated", Evaluation)
         /\ phase[c] = "recording" => Onward(phase[c], todo[c], "closing", <<"artifacts">>)
         /\ phase[c] = "saving" => /\ Onward(phase[c], todo[c], "returned", <<>>)
                                   /\ Onward(phase[c], todo[c], "showing", <<"flowText">>)
         /\ phase[c] = "showing" => Onward(phase[c], todo[c], "reviewing", <<"selfReview">>)
         /\ phase[c] = "reviewing" => /\ Onward(phase[c], todo[c], "finalizing", <<"feedback">>)
                                      /\ Onward(phase[c], todo[c], "stopped", <<>>)
         /\ phase[c] = "finalizing" => Onward(phase[c], todo[c], "prompting", Prompts)
         /\ phase[c] \in {"prompting", "closing"} => Onward(phase[c], todo[c], "done", <<>>)
<1> USE NamesFacts DEF Onward
<1>1. Onward(phase[c], todo[c], "rejected", <<>>)
  BY DEF Reached, Needed, Script, Paths
<1>2. phase[c] \in {"creating", "flow", "planning", "executing", "assessing", "loading", "comparing"} =>
              Onward(phase[c], todo[c], "reporting", Failures)
  BY DEF Reached, Needed, Script, Paths, Failures
<1>3. /\ phase[c] = "reporting" => Onward(phase[c], todo[c], "failed", <<>>)
      /\ phase[c] = "evaluated" => Onward(phase[c], todo[c], "recording", <<"evaluations">>)
      /\ phase[c] = "creating" => /\ Onward(phase[c], todo[c], "flow", <<>>)
                                  /\ Onward(phase[c], todo[c], "evaluating", <<>>)
  BY DEF Reached, Needed, Script, Paths
<1>4. /\ phase[c] = "flow" => Onward(phase[c], todo[c], "planning", <<>>)
      /\ phase[c] = "planning" => Onward(phase[c], todo[c], "executing", <<>>)
      /\ phase[c] = "executing" => Onward(phase[c], todo[c], "assessing", <<>>)
      /\ phase[c] \in {"assessing", "evaluating"} => /\ Onward(phase[c], todo[c], "loading", <<>>)
                                                     /\ Onward(phase[c], todo[c], "comparing", <<>>)
  BY DEF Reached, Needed, Script, Paths
<1>5. /\ phase[c] = "loading" => Onward(phase[c], todo[c], "saving", Results)
      /\ phase[c] = "comparing" => Onward(phase[c], todo[c], "evaluated", Evaluation)
      /\ phase[c] = "recording" => Onward(phase[c], todo[c], "closing", <<"artifacts">>)
  BY DEF Reached, Needed, Script, Paths, Results, Evaluation
<1>6. /\ phase[c] = "saving" => /\ Onward(phase[c], todo[c], "returned", <<>>)
                                /\ Onward(phase[c], todo[c], "showing", <<"flowText">>)
      /\ phase[c] = "showing" => Onward(phase[c], todo[c], "reviewing", <<"selfReview">>)
  BY DEF Reached, Needed, Script, Paths
<1>7. /\ phase[c] = "reviewing" => /\ Onward(phase[c], todo[c], "finalizing", <<"feedback">>)
                                   /\ Onward(phase[c], todo[c], "stopped", <<>>)
      /\ phase[c] = "finalizing" => Onward(phase[c], todo[c], "prompting", Prompts)
  BY DEF Reached, Needed, Script, Paths, Prompts
<1>8. phase[c] \in {"prompting", "closing"} => Onward(phase[c], todo[c], "done", <<>>)
  BY DEF Reached, Needed, Script, Paths
<1> HIDE DEF Onward
<1> QED
  BY <1>1, <1>2, <1>3, <1>4, <1>5, <1>6, <1>7, <1>8

\* A write that fails ends the phase.
LEMMA WayOut ==
  ASSUME Typed, NEW c \in Calls, CallFits(c), todo[c] # <<>>
  PROVE  /\ Onward(phase[c], todo[c], "rejected", <<>>)
         /\ phase[c] \in Guarded => Onward(phase[c], todo[c], "reporting", Failures)
<1>1. Onward(phase[c], todo[c], "rejected", <<>>)
  BY NamesFacts DEF Onward, Reached, Needed, Script, Paths
<1>2. ASSUME phase[c] \in Guarded PROVE Onward(phase[c], todo[c], "reporting", Failures)
  <2>1. Names(Failures) = {"failure", "artifacts"}
    BY NamesFacts DEF Failures
  <2>2. phase[c] = "closing" => Names(todo[c]) = {"artifacts"}
    BY NamesFacts DEF CallFits, Owed
  <2>3. Names(Failures) \cap (Reached(phase[c]) \ Names(todo[c])) = {}
    BY <1>2, <2>1, <2>2 DEF Guarded, Reached, Paths
  <2>4. Reached(phase[c]) \subseteq Paths /\ Reached("reporting") = Paths /\ Needed("reporting") = {}
        /\ Script("reporting") = {"failure", "artifacts"}
    BY DEF Reached, Needed, Script, Paths
  <2> QED
    BY <2>1, <2>3, <2>4 DEF Onward
<1> QED
  BY <1>1, <1>2

LEMMA OwnWas ==
  ASSUME Typed, CallsFit, NEW c \in Calls, ByCall(c)
  PROVE  /\ ~Create(c) => dir' = dir
         /\ \A b \in Calls : OwnDirectory(b)' /\ dir[b] # None => OwnDirectory(b) /\ dir'[b] = dir[b]
<1>1. ~Create(c) => dir' = dir
  BY DEF ByCall, Open, Write, WriteFails, Reported, ReadHistory, Enter, StartFlow, PlanFlow, EndFlow, Load,
         Assess, Return, Review, Finalize, Prompt, Finish, Evaluate
<1>2. CASE Create(c)
  <2>1. dir[c] = None /\ \A b \in Calls \ {c} : dir'[b] = dir[b]
    BY <1>2, Created
  <2>2. ASSUME NEW b \in Calls, OwnDirectory(b)', dir[b] # None PROVE OwnDirectory(b) /\ dir'[b] = dir[b]
    <3>1. b # c /\ dir'[b] = dir[b]
      BY <2>1, <2>2
    <3>2. ASSUME NEW a \in Calls \ {b} PROVE dir[a] # dir[b]
      <4>1. CASE a = c
        BY <2>1, <2>2, <4>1
      <4>2. CASE a # c
        BY <2>1, <2>2, <3>1, <4>2 DEF OwnDirectory
      <4> QED
        BY <4>1, <4>2
    <3> QED
      BY <3>1, <3>2 DEF OwnDirectory
  <2> QED
    BY <1>2, <2>2
<1>3. CASE dir' = dir
  BY <1>1, <1>3 DEF OwnDirectory
<1> QED
  BY <1>1, <1>2, <1>3

LEMMA CallKeepsFiles ==
  ASSUME Typed, CallsFit, NEW c \in Calls, ByCall(c), dir'[c] # None, OwnDirectory(c)',
         dir[c] # None => FilesFit(c)
  PROVE  FilesFit(c)'
<1>0. CallFits(c)
  BY DEF CallsFit
<1>1. CASE Open(c) \/ Write(c)
  <2>1. dir[c] # None
    BY <1>1 DEF Open, Write
  <2> QED
    BY <1>1, <2>1, OpenKeepsFiles, WriteKeepsFiles
<1>2. CASE Create(c)
  <2>1. /\ dir[c] = None /\ dir'[c] # OldSession /\ dir'[c] \in DOMAIN files'
        /\ \A b \in Calls \ {c} : dir'[b] = dir[b]
        /\ \A e \in DOMAIN files' : files'[e] = IF e \in DOMAIN files THEN files[e] ELSE NoFiles
    BY <1>2, Created
  <2>2. dir'[c] \notin DOMAIN files
    BY <2>1 DEF OwnDirectory, Typed, DiskTyped, Directories
  <2>3. files'[dir'[c]] = NoFiles
    BY <2>1, <2>2
  <2>4. Becomes(c, "creating", <<"session", "last">>)
    BY <1>2, GoBecomes DEF Create
  <2>5. Names(<<"session", "last">>) = {"session", "last"}
    BY NamesFacts
  <2> QED
    BY <2>3, <2>4, <2>5 DEF FilesFit, Becomes, NoFiles, Needed, Script, Consistent
<1>3. ASSUME ~Open(c), ~Write(c), ~Create(c) PROVE files' = files /\ dir' = dir /\ FilesFit(c)
  <2>1. files' = files
    BY <1>3 DEF ByCall, WriteFails, Reported, ReadHistory, Enter, StartFlow, PlanFlow, EndFlow, Load,
         Assess, Return, Review, Finalize, Prompt, Finish, Evaluate, disk
  <2> QED
    BY <1>3, <2>1, OwnWas
<1>4. CASE WriteFails(c)
  <2>1. todo[c] # <<>> /\ files' = files /\ dir' = dir
    BY <1>4 DEF WriteFails, disk
  <2>2. CASE phase[c] \in Guarded
    <3>1. Becomes(c, "reporting", Failures)
      BY <1>4, <2>2, GoBecomes DEF WriteFails, Fail
    <3> QED
      BY <1>0, <2>1, <2>2, <3>1, WayOut, OnwardKeepsFiles
  <2>3. CASE phase[c] \notin Guarded
    <3>1. Becomes(c, "rejected", <<>>)
      BY <1>4, <2>3, GoBecomes DEF WriteFails
    <3> QED
      BY <1>0, <2>1, <3>1, WayOut, OnwardKeepsFiles
  <2> QED
    BY <2>2, <2>3
<1>5. ASSUME todo[c] = <<>>, ~Create(c), ~Open(c), ~Write(c), NEW next, NEW paths,
             Becomes(c, next, paths), Onward(phase[c], todo[c], next, paths)
      PROVE  FilesFit(c)'
  BY <1>3, <1>5, OnwardKeepsFiles
<1>6. CASE ReadHistory(c)
  <2>1. \/ phase[c] = "idle"
        \/ Ready(c, "evaluated") /\ Becomes(c, "recording", <<"evaluations">>)
    BY <1>6, GoBecomes DEF ReadHistory, Begins
  <2>2. CASE phase[c] = "idle"
    <3>1. dir[c] = None /\ todo[c] = <<>>
      BY <1>0, <2>2 DEF CallFits, Owed
    <3>2. dir' = dir
      BY <1>6 DEF ReadHistory
    <3> QED
      BY <3>1, <3>2
  <2>3. CASE Ready(c, "evaluated") /\ Becomes(c, "recording", <<"evaluations">>)
    <3>1. ~Create(c) /\ ~Open(c) /\ ~Write(c) /\ todo[c] = <<>> /\ phase[c] = "evaluated"
      BY <2>3 DEF Create, Ready, Begins, Open, Write
    <3> QED
      BY <1>5, <2>3, <3>1, WaysOn
  <2> QED
    BY <2>1, <2>2, <2>3
<1>7. CASE Enter(c) \/ StartFlow(c) \/ PlanFlow(c) \/ EndFlow(c)
  <2>1. /\ phase[c] \in {"creating", "flow", "planning", "executing"} /\ todo[c] = <<>>
        /\ \/ Becomes(c, "reporting", Failures)
           \/ phase[c] = "creating" /\ Becomes(c, "flow", <<>>)
           \/ phase[c] = "flow" /\ Becomes(c, "planning", <<>>)
           \/ phase[c] = "planning" /\ Becomes(c, "executing", <<>>)
           \/ phase[c] = "executing" /\ Becomes(c, "assessing", <<>>)
    <3>1. CASE Enter(c)
      BY <3>1, GoBecomes DEF Enter, Ready, Fail
    <3>2. CASE StartFlow(c) \/ PlanFlow(c)
      BY <1>0, <3>2, GoBecomes DEF StartFlow, PlanFlow, Fail, CallFits, Owed
    <3>3. CASE EndFlow(c)
      BY <1>0, <3>3, GoBecomes DEF EndFlow, Fail, CallFits, Owed
    <3> QED
      BY <1>7, <3>1, <3>2, <3>3
  <2>2. ~Create(c) /\ ~Open(c) /\ ~Write(c)
    BY <1>0, <2>1 DEF Create, Ready, Begins, Open, Write
  <2> QED
    BY <1>5, <2>1, <2>2, WaysOn
<1>8. CASE Load(c) \/ Assess(c)
  <2>1. /\ todo[c] = <<>>
        /\ \/ phase[c] = "loading" /\ Becomes(c, "reporting", Failures)
           \/ phase[c] = "loading" /\ Becomes(c, "saving", Results)
           \/ phase[c] \in {"assessing", "evaluating"} /\ Becomes(c, "loading", <<>>)
           \/ phase[c] \in {"assessing", "evaluating"} /\ Becomes(c, "comparing", <<>>)
    BY <1>0, <1>8, GoBecomes DEF Load, LoadCached, Assess, Fail, CallFits, Owed
  <2>2. ~Create(c) /\ ~Open(c) /\ ~Write(c)
    BY <1>0, <2>1 DEF Create, Ready, Begins, Open, Write
  <2> QED
    BY <1>5, <2>1, <2>2, WaysOn
<1>9. CASE Reported(c) \/ Return(c) \/ Finish(c)
  <2>1. /\ todo[c] = <<>>
        /\ \/ phase[c] = "reporting" /\ Becomes(c, "failed", <<>>)
           \/ phase[c] = "saving" /\ Becomes(c, "showing", <<"flowText">>)
           \/ phase[c] = "saving" /\ Becomes(c, "returned", <<>>)
           \/ phase[c] \in {"prompting", "closing"} /\ Becomes(c, "done", <<>>)
    BY <1>9, GoBecomes DEF Reported, Return, Finish, Ready
  <2>2. ~Create(c) /\ ~Open(c) /\ ~Write(c)
    BY <1>0, <2>1 DEF Create, Ready, Begins, Open, Write
  <2> QED
    BY <1>5, <2>1, <2>2, WaysOn
<1>10. CASE Review(c) \/ Finalize(c) \/ Prompt(c)
  <2>1. /\ todo[c] = <<>> /\ phase[c] \in {"showing", "reviewing", "finalizing"}
        /\ \/ phase[c] = "showing" /\ Becomes(c, "reviewing", <<"selfReview">>)
           \/ Becomes(c, "rejected", <<>>)
           \/ phase[c] = "reviewing" /\ Becomes(c, "finalizing", <<"feedback">>)
           \/ phase[c] = "reviewing" /\ Becomes(c, "stopped", <<>>)
           \/ phase[c] = "finalizing" /\ Becomes(c, "prompting", Prompts)
    BY <1>10, GoBecomes DEF Review, Finalize, Prompt, Ready
  <2>2. ~Create(c) /\ ~Open(c) /\ ~Write(c)
    BY <1>0, <2>1 DEF Create, Ready, Begins, Open, Write
  <2> QED
    BY <1>5, <2>1, <2>2, WaysOn
<1>11. CASE Evaluate(c)
  <2>1. /\ todo[c] = <<>> /\ phase[c] \in {"creating", "comparing", "recording"}
        /\ \/ phase[c] = "creating" /\ Becomes(c, "evaluating", <<>>)
           \/ phase[c] \in {"creating", "comparing"} /\ Becomes(c, "reporting", Failures)
           \/ phase[c] = "comparing" /\ Becomes(c, "evaluated", Evaluation)
           \/ phase[c] = "recording" /\ Becomes(c, "closing", <<"artifacts">>)
    BY <1>0, <1>11, GoBecomes DEF Evaluate, Ready, Fail, CallFits, Owed
  <2>2. ~Create(c) /\ ~Open(c) /\ ~Write(c)
    BY <1>0, <2>1 DEF Create, Ready, Begins, Open, Write
  <2> QED
    BY <1>5, <2>1, <2>2, WaysOn
<1> QED
  BY <1>1, <1>2, <1>4, <1>6, <1>7, <1>8, <1>9, <1>10, <1>11 DEF ByCall

\* The directory of another call is not touched.
LEMMA OthersFiles ==
  ASSUME Typed, CallsFit, NEW c \in Calls, ByCall(c), NEW d \in DOMAIN files
  PROVE  /\ d \in DOMAIN files'
         /\ d # dir[c] => files'[d] = files[d]
         /\ "session" \in files[d].whole /\ "session" \notin files'[d].whole =>
              phase[c] = "creating" /\ todo[c] # <<>> /\ d = dir[c]
<1>0. CallFits(c)
  BY DEF CallsFit
<1>1. CASE Open(c) \/ Write(c)
  <2>1. PICK torn \in BOOLEAN : Place(c, Head(todo[c]), torn)
    BY <1>1 DEF Open, Write
  <2>2. todo[c] # <<>>
    BY <1>1 DEF Open, Write
  <2>3. /\ d \in DOMAIN files' /\ (d # dir[c] => files'[d] = files[d])
        /\ Head(todo[c]) \in Shared => files'[d] = files[d]
    BY <1>0, <2>1, <2>2, Placed
  <2>4. Head(todo[c]) # "session" /\ "session" \in files[d].whole => "session" \in files'[d].whole
    <3>1. CASE files'[d] = files[d]
      BY <3>1
    <3>2. CASE d = dir[c] /\ Head(todo[c]) \notin Shared
      <4>1. \/ files'[d] = [torn |-> files[d].torn \cup {Head(todo[c])}, whole |-> files[d].whole \ {Head(todo[c])}]
            \/ files'[d] = [torn |-> files[d].torn \ {Head(todo[c])}, whole |-> files[d].whole \cup {Head(todo[c])}]
        BY <1>0, <2>1, <2>2, <3>2, Placed
      <4> QED
        BY <4>1
    <3> QED
      BY <2>3, <3>1, <3>2
  <2>5. Head(todo[c]) = "session" => phase[c] = "creating"
    BY <1>0, <2>2, Places DEF Next1
  <2> QED
    BY <2>2, <2>3, <2>4, <2>5
<1>2. CASE Create(c)
  BY <1>2, Created
<1>3. CASE ~Open(c) /\ ~Write(c) /\ ~Create(c)
  <2>1. files' = files
    BY <1>3 DEF ByCall, WriteFails, Reported, ReadHistory, Enter, StartFlow, PlanFlow, EndFlow, Load,
         Assess, Return, Review, Finalize, Prompt, Finish, Evaluate, disk
  <2> QED
    BY <2>1
<1> QED
  BY <1>1, <1>2, <1>3

LEMMA SessionsFitKeeps ==
  ASSUME Typed, CallsFit, SessionsFit, Next
  PROVE  SessionsFit'
<1>1. ASSUME NEW c \in Calls, ByCall(c) PROVE SessionsFit'
  <2> SUFFICES ASSUME NEW b \in Calls, dir'[b] # None, OwnDirectory(b)' PROVE FilesFit(b)'
    BY DEF SessionsFit
  <2>1. dir[b] # None => FilesFit(b) /\ OwnDirectory(b)
    BY <1>1, OwnWas DEF SessionsFit
  <2>2. CASE b = c
    BY <1>1, <2>1, <2>2, CallKeepsFiles
  <2>3. CASE b # c
    <3>1. Same(b)
      BY <1>1, <2>3, OnlyTheCaller
    <3>2. dir[b] # None /\ dir[b] # dir[c] /\ dir[b] \in DOMAIN files
      BY <2>1, <2>3, <3>1 DEF Same, OwnDirectory, Typed, DiskTyped, Directories
    <3> QED
      BY <1>1, <2>1, <3>1, <3>2, FilesStay, OthersFiles
  <2> QED
    BY <2>2, <2>3
<1>2. ASSUME NEW p \in Processes, ReadSettles(p) PROVE SessionsFit'
  BY <1>2 DEF ReadSettles, call, disk, SessionsFit, FilesFit, OwnDirectory
<1>3. ASSUME NEW p \in Processes, Crash(p) PROVE SessionsFit'
  <2> SUFFICES ASSUME NEW b \in Calls, dir'[b] # None, OwnDirectory(b)' PROVE FilesFit(b)'
    BY DEF SessionsFit
  <2>1. UNCHANGED <<dir, files>> /\ FilesFit(b)
    BY <1>3 DEF Crash, disk, SessionsFit, OwnDirectory
  <2>2. CASE Home[b] = p /\ phase[b] \notin Ended \cup {"idle"}
    <3>1. phase'[b] = "dead" /\ todo'[b] = <<>> /\ open'[b] = FALSE
      BY <1>3, <2>2 DEF Crash
    <3>2. Reached(phase[b]) \subseteq Reached("dead") /\ Needed("dead") = {} /\ Script("dead") = {}
      BY DEF Reached, Needed, Script, Paths
    <3> QED
      BY <2>1, <3>1, <3>2, NamesFacts DEF FilesFit
  <2>3. CASE ~(Home[b] = p /\ phase[b] \notin Ended \cup {"idle"})
    <3>1. phase'[b] = phase[b] /\ todo'[b] = todo[b] /\ open'[b] = open[b]
      BY <1>3, <2>3 DEF Crash, Typed, CallTyped
    <3> QED
      BY <2>1, <3>1 DEF FilesFit
  <2> QED
    BY <2>2, <2>3
<1> QED
  BY <1>1, <1>2, <1>3, ByCallOrProcess

-----------------------------------------------------------------------------
(* The last session *)

RecordedFits(c) == /\ dir[c] # None
                   /\ phase[c] = "creating" => todo[c] = <<>>

\* The step that ends the creation of a session.
Records(c) == Write(c) /\ phase[c] = "creating" /\ Len(todo[c]) = 1

LEMMA RecordsFacts ==
  ASSUME Typed, CallsFit, LastFits, NEW c \in Calls, Records(c)
  PROVE  /\ recorded' = recorded \cup {c} /\ c \notin recorded
         /\ todo'[c] = <<>> /\ dir' = dir /\ dir[c] # None /\ dir[c] \in DOMAIN files
         /\ dir[c] # OldSession
         /\ files' = files /\ earlier' = earlier
         /\ lastRun' \in {Torn, dir[c]}
         /\ todo[c] = <<"last">>
<1>0. todo[c] # <<>> /\ CallFits(c)
  BY DEF Records, Write, CallsFit
<1>1. todo[c] \in {<<"session", "last">>, <<"last">>}
  BY <1>0 DEF Records, CallFits, Owed
<1>2. todo[c] = <<"last">>
  <2>1. Len(<<"session", "last">>) # 1
    OBVIOUS
  <2> QED
    BY <1>1, <2>1 DEF Records
<1>3. Head(todo[c]) = "last" /\ Tail(todo[c]) = <<>>
  BY <1>2
<1>4. dir[c] # None /\ dir[c] \in DOMAIN files /\ dir[c] # OldSession
  BY <1>0, PathFacts DEF Records, OldSession
<1>5. /\ recorded' = recorded \cup {c} /\ dir' = dir /\ earlier' = earlier /\ todo'[c] = <<>>
  BY <1>3 DEF Records, Write, Typed, CallTyped
<1>6. files' = files /\ lastRun' \in {Torn, dir[c]}
  BY <1>3 DEF Records, Write, Place, Histories
<1>7. c \notin recorded
  BY <1>0 DEF LastFits, Records
<1> QED
  BY <1>2, <1>4, <1>5, <1>6, <1>7

\* Every other step.
LEMMA NotRecordsFacts ==
  ASSUME Typed, CallsFit, LastFits, NEW c \in Calls, ByCall(c), ~Records(c)
  PROVE  /\ recorded' = recorded
         /\ lastRun' \in {Torn, lastRun}
         /\ c \in recorded => RecordedFits(c)' /\ dir' = dir
         /\ \A b \in Calls : /\ earlier'[b] \in {earlier[b], recorded}
                             /\ b \in recorded => earlier'[b] = earlier[b]
<1>0. CallFits(c)
  BY DEF CallsFit
<1>1. CASE Open(c)
  <2>1. UNCHANGED <<recorded, dir, earlier, phase, todo>>
    BY <1>1 DEF Open
  <2>2. lastRun' \in {Torn, lastRun}
    BY <1>0, <1>1, Placed DEF Open
  <2> QED
    BY <2>1, <2>2 DEF LastFits, RecordedFits
<1>2. CASE Write(c)
  <2>0. todo[c] # <<>>
    BY <1>2 DEF Write
  <2>1. UNCHANGED <<recorded, dir, earlier, phase>>
    BY <1>2 DEF Write, Records
  <2>2. lastRun' \in {Torn, lastRun}
    <3>1. Head(todo[c]) # "last"
      <4> SUFFICES ASSUME Head(todo[c]) = "last" PROVE FALSE
        OBVIOUS
      <4>1. phase[c] = "creating" /\ Tail(todo[c]) = <<>>
        BY <1>0, <2>0, Places DEF Next1
      <4>2. todo[c] \in {<<"session", "last">>, <<"last">>}
        BY <1>0, <2>0, <4>1 DEF CallFits, Owed
      <4>3. Len(todo[c]) = 1
        BY <4>1, <4>2
      <4> QED
        BY <1>2, <4>1, <4>3 DEF Records
    <3> QED
      BY <1>0, <1>2, <2>0, <3>1, Placed DEF Write
  <2>3. c \in recorded => phase[c] # "creating"
    BY <2>0 DEF LastFits
  <2> QED
    BY <2>1, <2>2, <2>3 DEF LastFits, RecordedFits
<1>3. CASE Create(c)
  <2>1. c \notin recorded
    BY <1>3, Created DEF LastFits
  <2> QED
    BY <1>3, <2>1 DEF Create, Typed, GhostTyped
<1>4. CASE ~Open(c) /\ ~Write(c) /\ ~Create(c)
  <2>1. UNCHANGED <<recorded, dir, earlier, lastRun>>
    BY <1>4 DEF ByCall, WriteFails, Reported, ReadHistory, Enter, StartFlow, PlanFlow, EndFlow, Load,
         Assess, Return, Review, Finalize, Prompt, Finish, Evaluate, disk, ghosts
  <2>2. phase'[c] # "creating"
    <3>1. CASE WriteFails(c) \/ Reported(c) \/ ReadHistory(c)
      <4>1. \/ Becomes(c, "reporting", Failures) \/ Becomes(c, "rejected", <<>>) \/ Becomes(c, "failed", <<>>)
            \/ Becomes(c, "caching", <<"requirements">>) \/ Becomes(c, "recording", <<"evaluations">>)
        BY <3>1, GoBecomes DEF WriteFails, Reported, ReadHistory, Fail
      <4> QED
        BY <4>1 DEF Becomes
    <3>2. CASE Enter(c) \/ StartFlow(c) \/ PlanFlow(c) \/ EndFlow(c)
      <4>1. \/ Becomes(c, "reporting", Failures) \/ Becomes(c, "flow", <<>>) \/ Becomes(c, "planning", <<>>)
            \/ Becomes(c, "executing", <<>>) \/ Becomes(c, "assessing", <<>>)
        BY <3>2, GoBecomes DEF Enter, StartFlow, PlanFlow, EndFlow, Fail
      <4> QED
        BY <4>1 DEF Becomes
    <3>3. CASE Load(c) \/ Assess(c) \/ Return(c)
      <4>1. \/ Becomes(c, IF Kind[c] = "eval" THEN "comparing" ELSE "loading", <<>>)
            \/ Becomes(c, "saving", Results) \/ Becomes(c, "reporting", Failures)
            \/ Becomes(c, "showing", <<"flowText">>) \/ Becomes(c, "returned", <<>>)
        BY <3>3, GoBecomes DEF Load, Assess, Return, Fail
      <4> QED
        BY <4>1 DEF Becomes
    <3>4. CASE Review(c) \/ Finalize(c) \/ Prompt(c) \/ Finish(c)
      <4>1. \/ Becomes(c, "reviewing", <<"selfReview">>)
            \/ Becomes(c, "rejected", <<>>) \/ Becomes(c, "finalizing", <<"feedback">>)
            \/ Becomes(c, "stopped", <<>>) \/ Becomes(c, "prompting", Prompts) \/ Becomes(c, "done", <<>>)
        BY <3>4, GoBecomes DEF Review, Finalize, Prompt, Finish
      <4> QED
        BY <4>1 DEF Becomes
    <3>5. CASE Evaluate(c)
      <4>1. \/ Becomes(c, "evaluating", <<>>) \/ Becomes(c, "reporting", Failures)
            \/ Becomes(c, "evaluated", Evaluation) \/ Becomes(c, "closing", <<"artifacts">>)
        BY <3>5, GoBecomes DEF Evaluate, Fail
      <4> QED
        BY <4>1 DEF Becomes
    <3> QED
      BY <1>4, <3>1, <3>2, <3>3, <3>4, <3>5 DEF ByCall
  <2> QED
    BY <2>1, <2>2 DEF LastFits, RecordedFits
<1> QED
  BY <1>1, <1>2, <1>3, <1>4

LEMMA LastFitsCall ==
  ASSUME Typed, Typed', CallsFit, SessionsFit, LastFits, NEW c \in Calls, ByCall(c)
  PROVE  LastFits'
<1> USE DEF Typed, CallTyped, DiskTyped, GhostTyped
<1>0. CallFits(c)
  BY DEF CallsFit
<1>1. \A d \in DOMAIN files : d \in DOMAIN files'
  BY OthersFiles
<1>2. "session" \in files'[OldSession].whole
  <2>1. OldSession \in DOMAIN files /\ "session" \in files[OldSession].whole
    BY DEF LastFits, Directories
  <2>2. phase[c] = "creating" /\ todo[c] # <<>> => dir[c] # OldSession
    BY <1>0, PathFacts DEF OldSession
  <2> QED
    BY <2>1, <2>2, OthersFiles
<1>3. lastRun' \in {Torn} \cup DOMAIN files'
  <2>1. CASE Records(c)
    BY <1>1, <2>1, RecordsFacts
  <2>2. CASE ~Records(c)
    BY <1>1, <2>2, NotRecordsFacts DEF LastFits
  <2> QED
    BY <2>1, <2>2
<1>4. ASSUME NEW b \in recorded' PROVE RecordedFits(b)'
  <2>1. CASE b = c
    <3>1. CASE Records(c)
      BY <2>1, <3>1, RecordsFacts DEF RecordedFits
    <3>2. CASE ~Records(c)
      BY <1>4, <2>1, <3>2, NotRecordsFacts
    <3> QED
      BY <3>1, <3>2
  <2>2. CASE b # c
    <3>1. b \in recorded /\ b \in Calls
      <4>1. CASE Records(c)
        BY <1>4, <2>2, <4>1, RecordsFacts
      <4>2. CASE ~Records(c)
        BY <1>4, <4>2, NotRecordsFacts
      <4> QED
        BY <4>1, <4>2
    <3> QED
      BY <2>2, <3>1, OnlyTheCaller DEF Same, RecordedFits, LastFits
  <2> QED
    BY <2>1, <2>2
<1>5. ASSUME NEW b \in Calls PROVE earlier'[b] \subseteq recorded'
  <2>1. CASE Records(c)
    BY <2>1, RecordsFacts DEF LastFits
  <2>2. CASE ~Records(c)
    <3>1. recorded' = recorded /\ earlier'[b] \in {earlier[b], recorded}
      BY <2>2, NotRecordsFacts
    <3>2. earlier[b] \subseteq recorded
      BY DEF LastFits
    <3> QED
      BY <3>1, <3>2
  <2> QED
    BY <2>1, <2>2
<1>6. lastRun' = OldSession => recorded' = {}
  <2>0. Torn # OldSession
    BY ValuesAssumption DEF OldSession
  <2>1. CASE Records(c)
    BY <2>0, <2>1, RecordsFacts
  <2>2. CASE ~Records(c)
    BY <2>0, <2>2, NotRecordsFacts DEF LastFits
  <2> QED
    BY <2>1, <2>2
<1>7. ASSUME AllOwn'
      PROVE  /\ \A b \in Calls, e \in recorded' : dir'[b] = lastRun' => b \notin earlier'[e]
             /\ \A e \in recorded' : "session" \in files'[dir'[e]].whole
  <2>1. AllOwn
    <3> SUFFICES ASSUME NEW b \in Calls, dir[b] # None PROVE OwnDirectory(b)
      BY DEF AllOwn
    <3>1. dir'[b] # None
      <4>1. CASE Create(c)
        BY <4>1, Created
      <4>2. CASE ~Create(c)
        BY <4>2, OwnWas
      <4> QED
        BY <4>1, <4>2
    <3>2. OwnDirectory(b)'
      BY <1>7, <3>1 DEF AllOwn
    <3> QED
      BY <3>2, OwnWas
  <2>2. /\ \A b \in Calls, e \in recorded : dir[b] = lastRun => b \notin earlier[e]
        /\ \A e \in recorded : /\ "session" \in files[dir[e]].whole
                               /\ e \in Calls /\ dir[e] # None /\ OwnDirectory(e) /\ dir[e] \in DOMAIN files
    BY <2>1 DEF LastFits, AllOwn, Directories
  <2>3. ASSUME NEW b \in Calls, NEW e \in recorded', dir'[b] = lastRun', b \in earlier'[e] PROVE FALSE
    <3>1. b \in recorded' /\ dir'[b] # None /\ dir'[b] # Torn /\ e \in Calls
      <4>1. b \in recorded' /\ e \in Calls
        BY <1>5, <2>3
      <4>2. dir'[b] # None
        BY <1>4, <4>1 DEF RecordedFits
      <4>3. dir'[b] \in (Nat \ {0}) \X Nat
        BY <4>2
      <4> QED
        BY <4>1, <4>2, <4>3, ValuesAssumption
    <3>2. CASE Records(c)
      <4>1. dir[b] = dir[c] /\ b \in earlier[e] /\ c \notin recorded /\ dir[c] # None
        BY <2>3, <3>1, <3>2, RecordsFacts
      <4>2. b = c
        BY <2>1, <4>1 DEF AllOwn, OwnDirectory
      <4>3. b \in recorded
        BY <3>1, <4>1 DEF LastFits
      <4> QED
        BY <4>1, <4>2, <4>3
    <3>3. CASE ~Records(c)
      <4>1. recorded' = recorded /\ lastRun' = lastRun /\ earlier'[e] = earlier[e]
        BY <2>3, <3>1, <3>3, NotRecordsFacts
      <4>2. dir'[b] = dir[b]
        <5>1. CASE b = c
          BY <3>1, <3>3, <4>1, <5>1, NotRecordsFacts
        <5>2. CASE b # c
          BY <5>2, OnlyTheCaller DEF Same
        <5> QED
          BY <5>1, <5>2
      <4> QED
        BY <2>2, <2>3, <4>1, <4>2
    <3> QED
      BY <3>2, <3>3
  <2>4. ASSUME NEW e \in recorded' PROVE "session" \in files'[dir'[e]].whole
    <3>1. CASE Records(c)
      <4>1. files' = files /\ dir' = dir /\ recorded' = recorded \cup {c} /\ dir[c] # None
            /\ todo[c] = <<"last">>
        BY <3>1, RecordsFacts
      <4>2. CASE e = c
        <5>1. FilesFit(c)
          BY <2>1, <4>1 DEF SessionsFit, AllOwn
        <5>2. Script("creating") = {"session"} /\ Names(todo[c]) = {"last"}
          BY <4>1, NamesFacts DEF Script
        <5>3. "session" \in files[dir[c]].whole
          BY <3>1, <5>1, <5>2 DEF FilesFit, Records
        <5> QED
          BY <4>1, <4>2, <5>3
      <4>3. CASE e # c
        BY <2>2, <2>4, <4>1, <4>3
      <4> QED
        BY <4>2, <4>3
    <3>2. CASE ~Records(c)
      <4>1. recorded' = recorded /\ e \in recorded
        BY <2>4, <3>2, NotRecordsFacts
      <4>2. dir'[e] = dir[e]
        <5>1. CASE e = c
          BY <3>2, <4>1, <5>1, NotRecordsFacts
        <5>2. CASE e # c
          BY <2>2, <4>1, <5>2, OnlyTheCaller DEF Same
        <5> QED
          BY <5>1, <5>2
      <4>3. ~(phase[c] = "creating" /\ todo[c] # <<>> /\ dir[e] = dir[c])
        <5> SUFFICES ASSUME phase[c] = "creating", todo[c] # <<>>, dir[e] = dir[c] PROVE FALSE
          OBVIOUS
        <5>1. e = c
          BY <2>2, <4>1 DEF OwnDirectory
        <5> QED
          BY <4>1, <5>1 DEF LastFits
      <4> QED
        BY <2>2, <4>1, <4>2, <4>3, OthersFiles
    <3> QED
      BY <3>1, <3>2
  <2> QED
    BY <2>3, <2>4
<1> QED
  BY <1>2, <1>3, <1>4, <1>5, <1>6, <1>7 DEF LastFits, RecordedFits

LEMMA LastFitsKeeps ==
  ASSUME Typed, Typed', CallsFit, SessionsFit, LastFits, Next
  PROVE  LastFits'
<1>1. ASSUME NEW p \in Processes, ReadSettles(p) PROVE LastFits'
  BY <1>1 DEF ReadSettles, call, disk, ghosts, LastFits, AllOwn, OwnDirectory
<1>2. ASSUME NEW p \in Processes, Crash(p) PROVE LastFits'
  <2>1. UNCHANGED <<dir, files, lastRun, recorded, earlier>>
    BY <1>2 DEF Crash, disk
  <2>2. \A c \in Calls : phase'[c] = "creating" => phase[c] = "creating" /\ todo'[c] = todo[c]
    BY <1>2 DEF Crash
  <2> QED
    BY <2>1, <2>2 DEF LastFits, AllOwn, OwnDirectory, Typed, GhostTyped
<1> QED
  BY <1>1, <1>2, LastFitsCall, ByCallOrProcess

-----------------------------------------------------------------------------
(* The theorems *)

LEMMA LabInit == Init => LabInv
<1> SUFFICES ASSUME Init PROVE LabInv
  OBVIOUS
<1> USE CallsAssumption, HistoryAssumption, ValuesAssumption DEF Init
<1>0. Directories = {OldSession}
  BY DEF Directories
<1>1. CallTyped
  BY DEF CallTyped, Phases, Lists
<1>2. ProcessTyped
  BY DEF ProcessTyped, Original
<1>3. DiskTyped
  <2>1. files \in [Directories -> [torn : SUBSET Paths, whole : SUBSET Paths]]
    BY <1>0 DEF Paths
  <2>2. histories \in [Histories -> Seq(Nat) \cup {Torn}]
    OBVIOUS
  <2>3. lastRun \in (Nat \X Nat) \cup {Torn}
    BY DEF OldSession
  <2> QED
    BY <2>1, <2>2, <2>3 DEF DiskTyped
<1>4. GhostTyped
  BY DEF GhostTyped
<1>5. CallsFit
  BY DEF CallsFit, CallFits, Owed, Running, Distinct
<1>6. LoadFits /\ ListenersFit
  BY DEF LoadFits, ListenersFit
<1>7. EnvironmentFits
  BY DEF EnvironmentFits, Alone, Active, Running
<1>8. HistoriesFit
  <2>1. Cut(Before) = Before
    <3>1. Cut(Before) = SubSeq(Before, 1, Len(Before))
      BY DEF Cut
    <3> QED
      BY <3>1
  <2> QED
    BY <2>1 DEF HistoriesFit, HistoryFits, Distinct, Writes
<1>9. SessionsFit
  BY DEF SessionsFit
<1>10. LastFits
  BY DEF LastFits
<1> QED
  BY <1>1, <1>2, <1>3, <1>4, <1>5, <1>6, <1>7, <1>8, <1>9, <1>10 DEF LabInv, Typed

LEMMA LabStutters == LabInv /\ UNCHANGED vars => LabInv'
<1> SUFFICES ASSUME LabInv, UNCHANGED vars PROVE LabInv'
  OBVIOUS
<1> USE DEF vars, call, process, disk, ghosts, LabInv
<1>1. Typed'
  BY DEF Typed, CallTyped, ProcessTyped, DiskTyped, GhostTyped, Directories
<1>2. CallsFit' /\ LoadFits'
  BY DEF CallsFit, CallFits, LoadFits
<1>3. ListenersFit'
  BY DEF ListenersFit, Active
<1>4. EnvironmentFits'
  <2>1. \A p \in Processes : Active(p)' = Active(p)
    BY DEF Active
  <2>2. \A p \in Processes : Alone(p) => Alone(p)'
    BY <2>1 DEF Alone
  <2> QED
    BY <2>2 DEF EnvironmentFits
<1>5. HistoriesFit'
  BY DEF HistoriesFit, HistoryFits, Writes
<1>6. SessionsFit'
  BY DEF SessionsFit, FilesFit, OwnDirectory
<1>7. LastFits'
  BY DEF LastFits, AllOwn, OwnDirectory
<1> QED
  BY <1>1, <1>2, <1>3, <1>4, <1>5, <1>6, <1>7

LEMMA LabStep == LabInv /\ [Next]_vars => LabInv'
<1>1. ASSUME LabInv, Next PROVE LabInv'
  <2>1. Typed'
    BY <1>1, TypedKeeps DEF LabInv
  <2> QED
    BY <1>1, <2>1, CallsFitKeeps, LoadFitsKeeps, ListenersFitKeeps, EnvironmentFitsKeeps, HistoriesFitKeeps,
       SessionsFitKeeps, LastFitsKeeps DEF LabInv
<1> QED
  BY <1>1, LabStutters

(***************************************************************************)
(* What the steps of lab sessions keep, whatever their order and whichever *)
(* process dies: what a call still writes, what its directory holds, what  *)
(* its process has of it.                                                  *)
(***************************************************************************)
THEOREM LabInvariant == Spec => []LabInv
BY LabInit, LabStep, PTL DEF Spec

(***************************************************************************)
(* The calls of one process agree on what the resource is, also when its   *)
(* read failed (resources/loader.ts:36-102).                               *)
(***************************************************************************)
THEOREM LoadsAlwaysAgree == Spec => []LoadsAgree
<1>1. LabInv => LoadsAgree
  BY DEF LabInv, LoadFits, LoadsAgree
<1> QED
  BY <1>1, LabInvariant, PTL

(***************************************************************************)
(* A listener in a process belongs to a run in progress or to one whose    *)
(* planning threw, and runs that never overlapped leave the environment as *)
(* they found it and never see another's (product.ts:1150-1172).           *)
(***************************************************************************)
THEOREM NothingEverLeaks == Spec => []NothingLeaks
<1>1. ASSUME LabInv, NEW p \in Processes
      PROVE  LET mine == {c \in Calls : Home[c] = p}
                 planless == {c \in mine : flow[c] = None}
             IN  /\ listeners[p] \subseteq {"lab", "runtime"} \X mine
                 /\ \A c \in mine \ Active(p) :
                      <<"lab", c>> \notin listeners[p] /\ (<<"runtime", c>> \in listeners[p] => c \in planless)
                 /\ overlapped \cap mine = {} =>
                      /\ Active(p) = {} => env[p] = Original
                      /\ \A c \in mine : models[c] \in {None, Requirement[c]}
  <2>1. listeners[p] \subseteq {"lab", "runtime"} \X Mine(p)
    <3> SUFFICES ASSUME NEW l \in listeners[p] PROVE l \in {"lab", "runtime"} \X Mine(p)
      OBVIOUS
    <3>1. listeners[p] \subseteq {"lab", "runtime"} \X Calls
      BY <1>1 DEF LabInv, Typed, ProcessTyped
    <3>2. PICK owner \in {"lab", "runtime"}, c \in Calls : l = <<owner, c>>
      BY <3>1
    <3>3. Home[c] = p
      BY <1>1, <3>2 DEF LabInv, ListenersFit, Active
    <3> QED
      BY <3>2, <3>3 DEF Mine
  <2>2. \A c \in Mine(p) \ Active(p) :
          <<"lab", c>> \notin listeners[p] /\ (<<"runtime", c>> \in listeners[p] => flow[c] = None)
    BY <1>1 DEF LabInv, ListenersFit, Mine
  <2>3. overlapped \cap Mine(p) = {} =>
          /\ Active(p) = {} => env[p] = Original
          /\ \A c \in Mine(p) : models[c] \in {None, Requirement[c]}
    BY <1>1 DEF LabInv, EnvironmentFits, Alone, Mine
  <2> QED
    BY <2>1, <2>2, <2>3, Zenon DEF Mine
<1>2. LabInv => NothingLeaks
  BY <1>1 DEF NothingLeaks
<1> QED
  BY <1>2, LabInvariant, PTL

(***************************************************************************)
(* Whoever finds artifacts.json finds the failure, the prompt or the       *)
(* evaluation it belongs to; a session that ended well holds what it       *)
(* promised and no failure (product.ts:1128-1149, 1240-1265, 1330-1353).   *)
(***************************************************************************)
THEOREM ArtifactsAlwaysTell == Spec => []ArtifactsTellTheOutcome
<1>1. ASSUME LabInv, NEW c \in Calls, dir[c] # None, OwnDirectory(c)
      PROVE  LET f == files[dir[c]]
             IN  /\ "artifacts" \in f.whole =>
                      \/ "failure" \in f.whole
                      \/ {"result", "selfReview", "feedback", "prompt"} \subseteq f.whole
                      \/ "evaluation" \in f.whole
                 /\ phase[c] = "returned" => {"result", "designs"} \subseteq f.whole
                 /\ phase[c] \in {"returned", "done"} => "failure" \notin f.torn \cup f.whole
                 /\ phase[c] = "done" => "artifacts" \in f.whole
                 /\ phase[c] = "failed" => {"failure", "artifacts"} \subseteq f.whole
  <2>1. FilesFit(c)
    BY <1>1 DEF LabInv, SessionsFit
  <2>2. /\ "failure" \notin Reached("returned") /\ "failure" \notin Reached("done")
        /\ Needed("returned") = {"result", "designs"} /\ Needed("done") = {"artifacts"}
        /\ Needed("failed") = {"failure", "artifacts"}
    BY DEF Reached, Needed, Paths
  <2> QED
    BY <2>1, <2>2 DEF FilesFit, Consistent
<1>2. LabInv => ArtifactsTellTheOutcome
  BY <1>1 DEF ArtifactsTellTheOutcome
<1> QED
  BY <1>2, LabInvariant, PTL

(***************************************************************************)
(* A readable history never holds an entry twice or too many of them, and  *)
(* holds those used last if no two writers overlapped and none stopped in  *)
(* the middle (files.ts:160-186, 217-244).                                 *)
(***************************************************************************)
THEOREM HistoriesStayRecent == Spec => []HistoriesAreRecent
<1>1. LabInv => HistoriesAreRecent
  BY DEF LabInv, HistoriesFit, HistoryFits, HistoriesAreRecent, Distinct, Cut
<1> QED
  BY <1>1, LabInvariant, PTL

\* A finite set of directories has one that comes last.
LEMMA NewestOf ==
  ASSUME NEW S, IsFiniteSet(S), S \subseteq Nat \X Nat, S # {}
  PROVE  \E d \in S : \A e \in S : e = d \/ Newer(d, e)
<1> DEFINE Held(U) == U = {} \/ \E d \in U : \A e \in U : e = d \/ Newer(d, e)
           G == {U \in SUBSET S : Held(U)}
<1>1. {} \in G
  OBVIOUS
<1>2. ASSUME NEW U \in G, NEW x \in S PROVE U \cup {x} \in G
  <2>1. CASE U = {}
    BY <2>1
  <2>2. CASE U # {}
    <3>1. PICK d \in U : \A e \in U : e = d \/ Newer(d, e)
      BY <2>2
    <3>2. d \in Nat \X Nat /\ x \in Nat \X Nat
      OBVIOUS
    <3>3. d = x \/ Newer(d, x) \/ Newer(x, d)
      BY <3>2 DEF Newer
    <3>4. CASE d = x \/ Newer(d, x)
      BY <3>1, <3>4
    <3>5. CASE Newer(x, d)
      <4>1. \A e \in U : Newer(x, e)
        <5> TAKE e \in U
        <5>1. e \in Nat \X Nat
          OBVIOUS
        <5> QED
          BY <3>1, <3>2, <3>5, <5>1 DEF Newer
      <4> QED
        BY <4>1
    <3> QED
      BY <3>3, <3>4, <3>5
  <2> QED
    BY <2>1, <2>2
<1>3. S \in G
  <2>1. G \in SUBSET SUBSET S
    OBVIOUS
  <2> HIDE DEF G
  <2> QED
    BY <1>1, <1>2, <2>1, Finitely
<1> QED
  BY <1>3

LEMMA DirectoriesAreFinite ==
  ASSUME Typed
  PROVE  IsFiniteSet(Directories)
<1> DEFINE B == {b \in Calls : dir[b] # None}
<1>1. IsFiniteSet(B)
  BY CallsAssumption, FS_Subset
<1>2. IsFiniteSet({dir[c] : c \in B})
  <2> DEFINE D == {dir[c] : c \in B}
  <2>1. [b \in B |-> dir[b]] \in Surjection(B, D)
    BY DEF Surjection
  <2> HIDE DEF B, D
  <2>2. IsFiniteSet(D)
    BY <1>1, <2>1, FS_Surjection
  <2> QED
    BY <2>2 DEF D
<1>3. IsFiniteSet({OldSession})
  BY FS_Singleton
<1> QED
  BY <1>2, <1>3, FS_Union DEF Directories

(***************************************************************************)
(* Unless two sessions share a directory, --last finds a session as soon   *)
(* as one was recorded, and none that was over before a later one began,   *)
(* whichever write was torn (files.ts:51-123).                             *)
(***************************************************************************)
THEOREM LastSessionAlwaysFound == Spec => []LastSessionIsFound
<1>1. ASSUME LabInv, AllOwn
      PROVE  /\ LastSession \in DOMAIN files
             /\ \A c \in recorded : LastSession[1] < dir[c][1] =>
                  \E b \in Calls : dir[b] = LastSession /\ b \notin earlier[c]
  <2>0. /\ DOMAIN files = Directories /\ Directories \subseteq Nat \X Nat
        /\ None \notin Nat \X Nat
    BY <1>1, ValuesAssumption DEF LabInv, Typed, CallTyped, DiskTyped, Directories, OldSession
  <2>1. CASE lastRun \notin {Torn, None}
    <3>1. LastSession = lastRun
      BY <2>1 DEF LastSession
    <3>2. lastRun \in Directories
      BY <1>1, <2>0, <2>1 DEF LabInv, LastFits
    <3>3. CASE lastRun = OldSession
      BY <1>1, <2>0, <3>1, <3>2, <3>3 DEF LabInv, LastFits
    <3>4. CASE lastRun # OldSession
      <4>1. PICK b \in Calls : dir[b] = lastRun
        BY <3>2, <3>4 DEF Directories
      <4> QED
        BY <1>1, <2>0, <3>1, <3>2, <4>1 DEF LabInv, LastFits
    <3> QED
      BY <3>3, <3>4
  <2>2. CASE lastRun \in {Torn, None}
    <3>1. OldSession \in Complete
      BY <1>1, <2>0 DEF LabInv, LastFits, Complete, Directories
    <3>2. IsFiniteSet(Complete) /\ Complete \subseteq Nat \X Nat
      BY <1>1, <2>0, DirectoriesAreFinite, FS_Subset DEF LabInv, Complete
    <3>3. \E d \in Complete : \A e \in Complete : e = d \/ Newer(d, e)
      BY <3>1, <3>2, NewestOf
    <3>4. LastSession = CHOOSE d \in Complete : \A e \in Complete : e = d \/ Newer(d, e)
      BY <2>2, <3>1 DEF LastSession
    <3>5. LastSession \in Complete /\ \A e \in Complete : e = LastSession \/ Newer(LastSession, e)
      BY <3>3, <3>4
    <3>6. ASSUME NEW c \in recorded, LastSession[1] < dir[c][1] PROVE FALSE
      <4>1. dir[c] \in Complete
        BY <1>1, <2>0 DEF LabInv, LastFits, Complete, Typed, GhostTyped, Directories
      <4>2. LastSession \in Nat \X Nat /\ dir[c] \in Nat \X Nat
        BY <3>2, <3>5, <4>1
      <4> QED
        BY <3>5, <3>6, <4>1, <4>2 DEF Newer
    <3> QED
      BY <3>5, <3>6 DEF Complete
  <2> QED
    BY <2>1, <2>2
<1>2. LabInv => LastSessionIsFound
  BY <1>1 DEF LastSessionIsFound, AllOwn
<1> QED
  BY <1>2, LabInvariant, PTL

-----------------------------------------------------------------------------
(* The verdicts of the lab, for every request and every run *)

\* One code more if the condition holds.
If(condition, code) == IF condition THEN <<code>> ELSE <<>>

LEMMA OneCode ==
  ASSUME NEW S, NEW code \in S, NEW condition \in BOOLEAN
  PROVE  /\ If(condition, code) \in Seq(S) /\ IsInjective(If(condition, code))
         /\ ToSet(If(condition, code)) \subseteq {code}
         /\ If(condition, code) = <<>> <=> ~condition
<1>1. CASE condition
  BY <1>1 DEF If, IsInjective, ToSet
<1>2. CASE ~condition
  BY <1>2 DEF If, IsInjective, ToSet
<1> QED
  BY <1>1, <1>2

LEMMA Concatenated ==
  ASSUME NEW S, NEW s \in Seq(S), NEW t \in Seq(S), IsInjective(s), IsInjective(t),
         ToSet(s) \cap ToSet(t) = {}
  PROVE  /\ s \o t \in Seq(S) /\ IsInjective(s \o t)
         /\ ToSet(s \o t) = ToSet(s) \cup ToSet(t)
         /\ s \o t = <<>> <=> s = <<>> /\ t = <<>>
<1> DEFINE r == s \o t
           m == Len(s)
           n == Len(t)
<1>1. /\ r \in Seq(S) /\ m \in Nat /\ n \in Nat /\ Len(r) = m + n
      /\ DOMAIN r = 1..(m + n) /\ DOMAIN s = 1..m /\ DOMAIN t = 1..n
      /\ \A i \in 1..m : r[i] = s[i]
      /\ \A i \in 1..(m + n) : i > m => r[i] = t[i - m]
  OBVIOUS
<1>2. \A u \in Seq(S) : u = <<>> <=> Len(u) = 0
  OBVIOUS
<1> HIDE DEF r
<1>7. r = <<>> <=> s = <<>> /\ t = <<>>
  BY <1>1, <1>2
<1> HIDE DEF m, n
<1>3. \A i \in 1..(m + n) : i \in 1..m \/ (i > m /\ i - m \in 1..n)
  BY <1>1
<1>4. \A i \in 1..m : i \in 1..(m + n)
  BY <1>1
<1>5. \A i \in 1..n : i + m \in 1..(m + n) /\ i + m > m /\ (i + m) - m = i
  BY <1>1
<1>6. ToSet(r) = ToSet(s) \cup ToSet(t)
  <2>1. ToSet(r) \subseteq ToSet(s) \cup ToSet(t)
    BY <1>1, <1>3 DEF ToSet
  <2>2. ToSet(s) \subseteq ToSet(r)
    BY <1>1, <1>4 DEF ToSet
  <2>3. ASSUME NEW i \in 1..n PROVE t[i] = r[i + m] /\ i + m \in DOMAIN r
    BY <1>1, <1>5
  <2>4. ToSet(t) \subseteq ToSet(r)
    <3> SUFFICES ASSUME NEW i \in 1..n PROVE t[i] \in ToSet(r)
      BY <1>1 DEF ToSet
    <3> QED
      BY <2>3 DEF ToSet
  <2> QED
    BY <2>1, <2>2, <2>4
<1>8. IsInjective(r)
  <2> SUFFICES ASSUME NEW i \in 1..(m + n), NEW j \in 1..(m + n), r[i] = r[j] PROVE i = j
    BY <1>1 DEF IsInjective
  <2>1. CASE i \in 1..m /\ j \in 1..m
    BY <1>1, <2>1 DEF IsInjective
  <2>2. CASE i > m /\ j > m
    <3>1. i - m \in 1..n /\ j - m \in 1..n /\ t[i - m] = t[j - m]
      BY <1>1, <1>3, <2>2
    <3>2. i - m = j - m
      BY <1>1, <3>1 DEF IsInjective
    <3> QED
      BY <1>1, <3>2
  <2>3. ASSUME NEW a \in 1..m, NEW b \in 1..(m + n), b > m PROVE r[a] # r[b]
    <3>1. r[a] \in ToSet(s)
      BY <1>1 DEF ToSet
    <3>2. b - m \in 1..n /\ r[b] = t[b - m]
      BY <1>1, <2>3
    <3>3. r[b] \in ToSet(t)
      BY <1>1, <3>2 DEF ToSet
    <3> QED
      BY <3>1, <3>3
  <2> QED
    BY <1>3, <2>1, <2>2, <2>3
<1>9. r \in Seq(S)
  BY <1>1
<1>10. r = s \o t
  BY DEF r
<1> QED
  BY <1>6, <1>7, <1>8, <1>9, <1>10, Zenon

ReasonCodes ==
  {"generic-task-graph-fallback", "mock-model-config", "json-contract-not-preserved",
   "json-schema-missing", "plain-text-format-drift", "missing-capabilities"}
Codes ==
  ReasonCodes \cup
  {"execution-failed", "execution-completed-without-solution", "synthetic-sample-validation",
   "architecture-confidence-limited", "architecture-evidence-thin"}

\* A list of reasons, each once, of these codes.
Listing(s, S) == s \in Seq(Codes) /\ IsInjective(s) /\ ToSet(s) \subseteq S

LEMMA ListingMore ==
  ASSUME NEW S, NEW s, Listing(s, S), NEW code \in Codes \ S, NEW condition \in BOOLEAN
  PROVE  /\ Listing(s \o If(condition, code), S \cup {code})
         /\ s \o If(condition, code) = <<>> <=> s = <<>> /\ ~condition
         /\ Listing(If(condition, code) \o s, S \cup {code})
         /\ If(condition, code) \o s = <<>> <=> s = <<>> /\ ~condition
<1> DEFINE t == If(condition, code)
<1>1. /\ t \in Seq(Codes) /\ IsInjective(t) /\ ToSet(t) \subseteq {code}
      /\ t = <<>> <=> ~condition
  BY OneCode
<1> HIDE DEF t
<1>2. ToSet(s) \cap ToSet(t) = {} /\ s \in Seq(Codes) /\ IsInjective(s) /\ ToSet(s) \subseteq S
  BY <1>1 DEF Listing
<1>3. /\ s \o t \in Seq(Codes) /\ IsInjective(s \o t) /\ ToSet(s \o t) = ToSet(s) \cup ToSet(t)
      /\ s \o t = <<>> <=> s = <<>> /\ t = <<>>
  BY <1>1, <1>2, Concatenated
<1>4. /\ t \o s \in Seq(Codes) /\ IsInjective(t \o s) /\ ToSet(t \o s) = ToSet(t) \cup ToSet(s)
      /\ t \o s = <<>> <=> t = <<>> /\ s = <<>>
  BY <1>1, <1>2, Concatenated
<1> QED
  BY <1>1, <1>2, <1>3, <1>4 DEF Listing, t

LEMMA ListingFirst ==
  ASSUME NEW S, NEW s, Listing(s, S), NEW code \in Codes \ S
  PROVE  Listing(<<code>> \o s, S \cup {code}) /\ <<code>> \o s # <<>>
<1>1. \A condition \in BOOLEAN :
        /\ Listing(If(condition, code) \o s, S \cup {code})
        /\ If(condition, code) \o s = <<>> <=> s = <<>> /\ ~condition
  BY ListingMore
<1>2. If(TRUE, code) = <<code>>
  BY DEF If
<1>3. /\ Listing(If(TRUE, code) \o s, S \cup {code})
      /\ If(TRUE, code) \o s # <<>>
  BY <1>1, Zenon
<1> QED
  BY <1>2, <1>3, Zenon

LEMMA ReasonsListed ==
  ASSUME NEW run, run.taskGraphFallback \in BOOLEAN, run.mockModel \in BOOLEAN,
         run.missing \in BOOLEAN, NEW request
  PROVE  /\ Listing(R!Reasons(run, request), ReasonCodes)
         /\ R!Reasons(run, request) = <<>> =>
              /\ ~run.taskGraphFallback /\ ~run.mockModel /\ ~run.missing
              /\ request.format = "json" => run.aiNode \notin {"text", "json"}
              /\ request.format \in {"plain-text", "markdown"} => run.aiNode = "text"
         /\ run.missing => R!Reasons(run, request) # <<>>
<1> DEFINE json == run.aiNode # "text"
           c3 == request.format = "json" /\ ~json
           c4 == request.format = "json" /\ run.aiNode = "json"
           c5 == request.format \in {"plain-text", "markdown"} /\ json
           s1 == If(run.taskGraphFallback, "generic-task-graph-fallback")
           s2 == s1 \o If(run.mockModel, "mock-model-config")
           s3 == s2 \o If(c3, "json-contract-not-preserved")
           s4 == s3 \o If(c4, "json-schema-missing")
           s5 == s4 \o If(c5, "plain-text-format-drift")
           s6 == s5 \o If(run.missing, "missing-capabilities")
           S1 == {"generic-task-graph-fallback"}
           S2 == S1 \cup {"mock-model-config"}
           S3 == S2 \cup {"json-contract-not-preserved"}
           S4 == S3 \cup {"json-schema-missing"}
           S5 == S4 \cup {"plain-text-format-drift"}
           S6 == S5 \cup {"missing-capabilities"}
<1>1. R!Reasons(run, request) = s6
  BY DEF R!Reasons, If
<1>2. c3 \in BOOLEAN /\ c4 \in BOOLEAN /\ c5 \in BOOLEAN
  OBVIOUS
<1>3. /\ "generic-task-graph-fallback" \in Codes
      /\ "mock-model-config" \in Codes \ S1
      /\ "json-contract-not-preserved" \in Codes \ S2
      /\ "json-schema-missing" \in Codes \ S3
      /\ "plain-text-format-drift" \in Codes \ S4
      /\ "missing-capabilities" \in Codes \ S5
      /\ S6 = ReasonCodes
  BY DEF Codes, ReasonCodes
<1>4. Listing(s1, S1) /\ (s1 = <<>> <=> ~run.taskGraphFallback)
  BY <1>3, OneCode DEF Listing
<1> HIDE DEF s1, S1, c3, c4, c5
<1>5. Listing(s2, S2) /\ (s2 = <<>> <=> s1 = <<>> /\ ~run.mockModel)
  BY <1>3, <1>4, ListingMore
<1> HIDE DEF s2, S2
<1>6. Listing(s3, S3) /\ (s3 = <<>> <=> s2 = <<>> /\ ~c3)
  BY <1>2, <1>3, <1>5, ListingMore
<1> HIDE DEF s3, S3
<1>7. Listing(s4, S4) /\ (s4 = <<>> <=> s3 = <<>> /\ ~c4)
  BY <1>2, <1>3, <1>6, ListingMore
<1> HIDE DEF s4, S4
<1>8. Listing(s5, S5) /\ (s5 = <<>> <=> s4 = <<>> /\ ~c5)
  BY <1>2, <1>3, <1>7, ListingMore
<1> HIDE DEF s5, S5
<1>9. Listing(s6, S6) /\ (s6 = <<>> <=> s5 = <<>> /\ ~run.missing)
  BY <1>3, <1>8, ListingMore
<1> HIDE DEF s6, S6
<1> QED
  BY <1>1, <1>3, <1>4, <1>5, <1>6, <1>7, <1>8, <1>9 DEF c3, c4, c5

Levels == {"not-fulfilled", "partial", "uncertain", "fulfilled"}

Succeeds(run) == run.status = "completed" /\ run.success # "no"
Early == Codes \ {"architecture-confidence-limited", "architecture-evidence-thin"}

\* The assessment, before the strategy adjusts it.
Assesses(assessment, run, request) ==
  /\ assessment.level \in Levels
  /\ Listing(assessment.reasons, Early)
  /\ assessment.level # "fulfilled" => assessment.reasons # <<>>
  /\ assessment.level = "fulfilled" => R!Reasons(run, request) = <<>>
  /\ assessment.level = "not-fulfilled" <=> ~Succeeds(run)
  /\ assessment.tells = assessment.level \/ ~Succeeds(run)

LEMMA AssessmentFacts ==
  ASSUME NEW run, run.taskGraphFallback \in BOOLEAN, run.mockModel \in BOOLEAN,
         run.missing \in BOOLEAN, NEW request
  PROVE  Assesses(R!Assessment(run, request), run, request)
<1> DEFINE reasons == R!Reasons(run, request)
           synthetic == IF R!HasSyntheticSample(request) THEN TRUE ELSE FALSE
           all == reasons \o If(synthetic, "synthetic-sample-validation")
           failed == <<"execution-failed">> \o reasons
           without == <<"execution-completed-without-solution">> \o reasons
           Allowed == Codes \ {"architecture-confidence-limited", "architecture-evidence-thin"}
<1>1. Listing(reasons, ReasonCodes) /\ (run.missing => reasons # <<>>)
  BY ReasonsListed
<1>2. /\ "execution-failed" \in Codes \ ReasonCodes
      /\ "execution-completed-without-solution" \in Codes \ ReasonCodes
      /\ "synthetic-sample-validation" \in Codes \ ReasonCodes
      /\ ReasonCodes \subseteq Allowed
      /\ ReasonCodes \cup {"execution-failed"} \subseteq Allowed
      /\ ReasonCodes \cup {"execution-completed-without-solution"} \subseteq Allowed
      /\ ReasonCodes \cup {"synthetic-sample-validation"} \subseteq Allowed
  BY DEF Codes, ReasonCodes
<1>3. R!Assessment(run, request) =
        IF run.status # "completed" THEN R!Assessed("not-fulfilled", "not completed", failed)
        ELSE IF run.success = "no" THEN R!Assessed("not-fulfilled", "not-fulfilled", without)
        ELSE IF run.missing THEN R!Assessed("partial", "partial", reasons)
        ELSE IF all # <<>> THEN R!Assessed("uncertain", "uncertain", all)
        ELSE R!Assessed("fulfilled", "fulfilled", <<>>)
  BY DEF R!Assessment, If
<1> HIDE DEF reasons, synthetic
<1>4. /\ Listing(all, Allowed) /\ (all = <<>> => reasons = <<>>)
      /\ Listing(failed, Allowed) /\ failed # <<>>
      /\ Listing(without, Allowed) /\ without # <<>>
      /\ Listing(reasons, Allowed)
      /\ Listing(<<>>, Allowed)
  <2>1. synthetic \in BOOLEAN
    BY DEF synthetic
  <2> HIDE DEF Allowed
  <2>2. /\ Listing(all, ReasonCodes \cup {"synthetic-sample-validation"})
        /\ (all = <<>> => reasons = <<>>)
    BY <1>1, <1>2, <2>1, ListingMore
  <2>3. Listing(failed, ReasonCodes \cup {"execution-failed"}) /\ failed # <<>>
    BY <1>1, <1>2, ListingFirst DEF failed
  <2>4. Listing(without, ReasonCodes \cup {"execution-completed-without-solution"})
        /\ without # <<>>
    BY <1>1, <1>2, ListingFirst DEF without
  <2>5. Listing(<<>>, Allowed)
    BY DEF Listing, IsInjective, ToSet
  <2> HIDE DEF all, failed, without
  <2> QED
    BY <1>1, <1>2, <2>2, <2>3, <2>4, <2>5 DEF Listing
<1> HIDE DEF all, failed, without, Allowed
<1> DEFINE assessment == R!Assessment(run, request)
           succeeds == run.status = "completed" /\ run.success # "no"
           Is(level, tells, list) ==
             /\ assessment.level = level /\ assessment.tells = tells
             /\ assessment.reasons = list
<1>5. /\ run.status # "completed" => Is("not-fulfilled", "not completed", failed)
      /\ run.status = "completed" /\ run.success = "no" =>
           Is("not-fulfilled", "not-fulfilled", without)
      /\ succeeds /\ run.missing => Is("partial", "partial", reasons)
      /\ succeeds /\ ~run.missing /\ all # <<>> => Is("uncertain", "uncertain", all)
      /\ succeeds /\ ~run.missing /\ all = <<>> => Is("fulfilled", "fulfilled", <<>>)
  <2>1. ASSUME NEW level, NEW tells, NEW list, assessment = R!Assessed(level, tells, list)
        PROVE  Is(level, tells, list)
    <3> HIDE DEF assessment
    <3> QED
      BY <2>1 DEF R!Assessed
  <2>2. run.status # "completed" => Is("not-fulfilled", "not completed", failed)
    <3> HAVE run.status # "completed"
    <3>1. assessment = R!Assessed("not-fulfilled", "not completed", failed)
      BY <1>3, Zenon
    <3> QED
      BY <2>1, <3>1
  <2>3. run.status = "completed" /\ run.success = "no" =>
          Is("not-fulfilled", "not-fulfilled", without)
    <3> HAVE run.status = "completed" /\ run.success = "no"
    <3>1. assessment = R!Assessed("not-fulfilled", "not-fulfilled", without)
      BY <1>3, Zenon
    <3> QED
      BY <2>1, <3>1
  <2>4. succeeds /\ run.missing => Is("partial", "partial", reasons)
    <3> HAVE succeeds /\ run.missing
    <3>1. assessment = R!Assessed("partial", "partial", reasons)
      BY <1>3, Zenon
    <3> QED
      BY <2>1, <3>1
  <2>5. succeeds /\ ~run.missing /\ all # <<>> => Is("uncertain", "uncertain", all)
    <3> HAVE succeeds /\ ~run.missing /\ all # <<>>
    <3>1. assessment = R!Assessed("uncertain", "uncertain", all)
      BY <1>3, Zenon
    <3> QED
      BY <2>1, <3>1
  <2>6. succeeds /\ ~run.missing /\ all = <<>> => Is("fulfilled", "fulfilled", <<>>)
    <3> HAVE succeeds /\ ~run.missing /\ all = <<>>
    <3>1. assessment = R!Assessed("fulfilled", "fulfilled", <<>>)
      BY <1>3, Zenon
    <3> QED
      BY <2>1, <3>1
  <2> QED
    BY <2>2, <2>3, <2>4, <2>5, <2>6
<1> HIDE DEF Listing, assessment
<1>7. /\ assessment.level \in Levels
      /\ Listing(assessment.reasons, Allowed)
      /\ assessment.level # "fulfilled" => assessment.reasons # <<>>
      /\ assessment.level = "fulfilled" => reasons = <<>>
      /\ assessment.level = "not-fulfilled" <=> ~succeeds
      /\ assessment.tells = assessment.level \/ ~succeeds
  <2>1. CASE run.status # "completed"
    BY <1>4, <1>5, <2>1 DEF Levels
  <2>2. CASE run.status = "completed" /\ run.success = "no"
    BY <1>4, <1>5, <2>2 DEF Levels
  <2>3. CASE succeeds /\ run.missing
    BY <1>1, <1>4, <1>5, <2>3 DEF Levels
  <2>4. CASE succeeds /\ ~run.missing /\ all # <<>>
    BY <1>4, <1>5, <2>4 DEF Levels
  <2>5. CASE succeeds /\ ~run.missing /\ all = <<>>
    BY <1>4, <1>5, <2>5 DEF Levels
  <2> QED
    BY <2>1, <2>2, <2>3, <2>4, <2>5
<1> QED
  BY <1>7 DEF Allowed, reasons, assessment, Assesses, Succeeds, Early

LEMMA BriefFacts ==
  ASSUME NEW request
  PROVE  /\ R!Brief(request).input = "synthetic" <=> R!SampleSource(request) # "default"
         /\ R!Brief(request).assertions # {}
<1> DEFINE source == R!InputSource(request)
           first == CASE request.taskType = "graph-explanation" \/ source = "synthetic" -> "explains"
                      [] "count" \in request.words -> "counts"
                      [] OTHER -> "satisfies"
<1>1. R!Brief(request).input = source
  BY DEF R!Brief, R!BriefOf
<1>2. source = "synthetic" <=> R!SampleSource(request) # "default"
  BY DEF R!InputSource
<1> HIDE DEF source, first
<1>3. PICK others : R!Brief(request).assertions = {first} \cup others
  BY DEF R!Brief, R!BriefOf, first, source
<1> QED
  BY <1>1, <1>2, <1>3

LEMMA EvidenceFacts ==
  ASSUME NEW run, NEW request, NEW assessment
  PROVE  R!Review(run, R!Brief(request), assessment).evidence =
           IF R!SampleSource(request) = "default" THEN "sufficient" ELSE "thin"
<1> DEFINE brief == R!Brief(request)
           evidence == CASE brief.assertions = {} -> "insufficient"
                         [] brief.assertions # {} /\ brief.input = "synthetic" -> "thin"
                         [] brief.assertions # {} /\ brief.input # "synthetic" -> "sufficient"
<1>1. R!Review(run, brief, assessment).evidence = evidence
  <2> HIDE DEF evidence, brief
  <2>1. PICK fit, reliance, findings :
          R!Review(run, brief, assessment) =
            [fit |-> fit, evidence |-> evidence, reliance |-> reliance, findings |-> findings]
    BY DEF R!Review, evidence
  <2> QED
    BY <2>1
<1> HIDE DEF brief
<1>2. brief.assertions # {} /\ (brief.input = "synthetic" <=> R!SampleSource(request) # "default")
  BY BriefFacts DEF brief
<1>3. evidence = IF R!SampleSource(request) = "default" THEN "sufficient" ELSE "thin"
  BY <1>2
<1> QED
  BY <1>1, <1>3 DEF brief

\* What the strategy makes of the assessment of a completed run.
Adjusts(verdict, brief, evidence, assessment) ==
  LET fulfilled == assessment.level = "fulfilled"
      limited == fulfilled /\ brief.ceiling = "uncertain"
      thin == evidence = "thin"
  IN  /\ verdict.level =
           IF fulfilled /\ (limited \/ thin) THEN "uncertain" ELSE assessment.level
      /\ Listing(verdict.reasons, Codes)
      /\ verdict.reasons = <<>> => assessment.reasons = <<>> /\ ~limited /\ ~thin
      /\ verdict.tells = IF limited \/ thin THEN "uncertain" ELSE assessment.tells

LEMMA AdjustedFacts ==
  ASSUME NEW run, run.status = "completed", NEW brief, NEW evidence, NEW assessment,
         Listing(assessment.reasons, Early)
  PROVE  Adjusts(R!Adjusted(run, brief, evidence, assessment), brief, evidence, assessment)
<1> DEFINE verdict == R!Adjusted(run, brief, evidence, assessment)
           fulfilled == assessment.level = "fulfilled"
           limited == fulfilled /\ brief.ceiling = "uncertain"
           thin == evidence = "thin"
           first == If(limited, "architecture-confidence-limited")
           second == If(thin, "architecture-evidence-thin")
           list == assessment.reasons
           level == IF fulfilled /\ (limited \/ thin) THEN "uncertain" ELSE assessment.level
           tells == IF limited \/ thin THEN "uncertain" ELSE assessment.tells
           More == Early \cup {"architecture-confidence-limited"}
<1>1. /\ "architecture-confidence-limited" \in Codes \ Early
      /\ "architecture-evidence-thin" \in Codes \ More
      /\ More \cup {"architecture-evidence-thin"} = Codes
  BY DEF Codes, ReasonCodes, Early
<1>2. limited \in BOOLEAN /\ thin \in BOOLEAN
  OBVIOUS
<1>3. verdict = [level |-> level,
                 tells |-> IF first \o second # <<>> THEN "uncertain" ELSE assessment.tells,
                 reasons |-> list \o first \o second]
  BY DEF R!Adjusted, R!Assessed, If
<1> HIDE DEF limited, thin, verdict, list, level, tells, More
<1>4. Listing(list, Early)
  BY DEF list
<1>5. /\ Listing(list \o first, More)
      /\ list \o first = <<>> <=> list = <<>> /\ ~limited
  BY <1>1, <1>2, <1>4, ListingMore DEF More
<1> DEFINE longer == list \o first
<1>10. /\ Listing(longer, More)
       /\ longer = <<>> <=> list = <<>> /\ ~limited
  BY <1>5
<1> HIDE DEF longer
<1>6. /\ Listing(longer \o second, More \cup {"architecture-evidence-thin"})
      /\ longer \o second = <<>> <=> longer = <<>> /\ ~thin
  BY <1>1, <1>2, <1>10, ListingMore
<1>7. /\ Listing(verdict.reasons, Codes)
      /\ verdict.reasons = <<>> => list = <<>> /\ ~limited /\ ~thin
  <2>1. verdict.reasons = longer \o second
    BY <1>3 DEF longer
  <2> QED
    BY <1>1, <1>10, <1>6, <2>1
<1>8. first \o second # <<>> <=> limited \/ thin
  BY <1>2 DEF If
<1>9. verdict.level = level /\ verdict.tells = tells
  BY <1>3, <1>8 DEF tells
<1> QED
  BY <1>7, <1>9 DEF verdict, list, level, tells, limited, thin, Adjusts

(***************************************************************************)
(* The verdict on any request and any run is borne out by the run: the     *)
(* three functions of the code that make it (the assessment of             *)
(* src/product/normalize.ts, the evidence and the correction of            *)
(* src/prompt-lab/product.ts) agree with the policy of automatic runs.     *)
(***************************************************************************)
THEOREM VerdictsOfAllRuns ==
  ASSUME NEW run, NEW request,
         request.format \in R!Formats,
         run.aiNode \in {"text", "json", "json-schema"},
         run.taskGraphFallback \in BOOLEAN, run.mockModel \in BOOLEAN, run.missing \in BOOLEAN
  PROVE  R!VerdictIsHonest(run, request)
<1> DEFINE assessment == R!Assessment(run, request)
           evidence == R!Review(run, R!Brief(request), assessment).evidence
           verdict == R!Verdict(run, request)
           succeeds == run.status = "completed" /\ run.success # "no"
           default == R!SampleSource(request) = "default"
<1>1. verdict = R!Adjusted(run, R!Brief(request), evidence, assessment)
  BY DEF R!Verdict
<1>2. evidence = IF default THEN "sufficient" ELSE "thin"
  BY EvidenceFacts
<1>3. /\ assessment.level \in Levels
      /\ Listing(assessment.reasons, Early)
      /\ assessment.level # "fulfilled" => assessment.reasons # <<>>
      /\ assessment.level = "fulfilled" => R!Reasons(run, request) = <<>>
      /\ assessment.level = "not-fulfilled" <=> ~succeeds
      /\ assessment.tells = assessment.level \/ ~succeeds
  <2>1. Assesses(assessment, run, request)
    BY AssessmentFacts
  <2> HIDE DEF assessment
  <2> QED
    BY <2>1 DEF Assesses, Succeeds
<1>4. R!Reasons(run, request) = <<>> =>
        /\ ~run.taskGraphFallback /\ ~run.mockModel /\ ~run.missing
        /\ R!KeepsFormat(run, request.format)
  <2>1. R!Reasons(run, request) = <<>> =>
          /\ ~run.taskGraphFallback /\ ~run.mockModel /\ ~run.missing
          /\ request.format = "json" => run.aiNode \notin {"text", "json"}
          /\ request.format \in {"plain-text", "markdown"} => run.aiNode = "text"
    BY ReasonsListed
  <2>2. ASSUME request.format = "json" => run.aiNode \notin {"text", "json"},
               request.format \in {"plain-text", "markdown"} => run.aiNode = "text"
        PROVE  R!KeepsFormat(run, request.format)
    BY <2>2 DEF R!KeepsFormat, R!Formats
  <2> QED
    BY <2>1, <2>2, Zenon
<1> HIDE DEF assessment, evidence, verdict
<1>5. /\ verdict.level \in Levels
      /\ verdict.level = "fulfilled" => succeeds /\ assessment.level = "fulfilled" /\ default
      /\ verdict.level # "fulfilled" => verdict.reasons # <<>>
      /\ IsInjective(verdict.reasons)
      /\ run.status = "completed" => (verdict.level = "not-fulfilled" <=> ~succeeds)
      /\ verdict.tells = verdict.level \/ evidence = "thin" \/ ~succeeds
  <2>1. CASE run.status # "completed"
    <3>1. verdict = assessment
      BY <1>1, <2>1 DEF R!Adjusted
    <3> QED
      BY <1>3, <2>1, <3>1 DEF Levels, Listing
  <2>2. CASE run.status = "completed"
    <3> DEFINE fulfilled == assessment.level = "fulfilled"
               limited == fulfilled /\ R!Brief(request).ceiling = "uncertain"
               thin == evidence = "thin"
    <3>1. /\ verdict.level =
               IF fulfilled /\ (limited \/ thin) THEN "uncertain" ELSE assessment.level
          /\ Listing(verdict.reasons, Codes)
          /\ verdict.reasons = <<>> => assessment.reasons = <<>> /\ ~limited /\ ~thin
          /\ verdict.tells = IF limited \/ thin THEN "uncertain" ELSE assessment.tells
      <4>1. Listing(assessment.reasons, Early)
        BY <1>3
      <4>2. Adjusts(verdict, R!Brief(request), evidence, assessment)
        BY <1>1, <2>2, <4>1, AdjustedFacts
      <4> QED
        BY <4>2 DEF Adjusts
    <3> HIDE DEF limited
    <3>2. limited => fulfilled
      BY DEF limited
    <3>3. IsInjective(verdict.reasons)
      BY <3>1 DEF Listing
    <3> QED
      BY <1>2, <1>3, <2>2, <3>1, <3>2, <3>3 DEF Levels
  <2> QED
    BY <2>1, <2>2
<1>6. R!GoesOn(run.status, verdict) <=>
        run.status \notin {"waiting_for_approval", "failed"} /\ verdict.level # "not-fulfilled"
  BY DEF R!GoesOn, R!Signals, R!StopSignal, R!Signal
<1>7. verdict.level \in {"uncertain", "partial"} => R!Warns(run.status, verdict, FALSE)
  BY DEF R!Warns, R!Signals, R!WarnSignal, R!Signal
<1>8. run.status # "completed" => verdict.level = "not-fulfilled"
  BY <1>1, <1>3 DEF R!Adjusted
<1>9. /\ verdict.level = "fulfilled" =>
           /\ succeeds /\ ~run.missing /\ ~run.taskGraphFallback /\ ~run.mockModel
           /\ R!KeepsFormat(run, request.format)
           /\ R!SampleSource(request) = "default" /\ evidence = "sufficient"
      /\ verdict.level # "fulfilled" => verdict.reasons # <<>> /\ IsInjective(verdict.reasons)
      /\ R!GoesOn(run.status, verdict) <=> succeeds
      /\ R!GoesOn(run.status, verdict) /\ ~R!Warns(run.status, verdict, FALSE) =>
           verdict.level = "fulfilled"
      /\ verdict.tells = verdict.level \/ evidence = "thin" \/ ~succeeds
  <2>1. verdict.level = "fulfilled" =>
          /\ succeeds /\ ~run.missing /\ ~run.taskGraphFallback /\ ~run.mockModel
          /\ R!KeepsFormat(run, request.format)
          /\ R!SampleSource(request) = "default" /\ evidence = "sufficient"
    BY <1>2, <1>3, <1>4, <1>5
  <2>2. R!GoesOn(run.status, verdict) <=> succeeds
    BY <1>5, <1>6, <1>8
  <2>3. R!GoesOn(run.status, verdict) /\ ~R!Warns(run.status, verdict, FALSE) =>
          verdict.level = "fulfilled"
    BY <1>5, <1>6, <1>7 DEF Levels
  <2> QED
    BY <1>5, <2>1, <2>2, <2>3
<1>10. R!IsInjective(verdict.reasons) <=> IsInjective(verdict.reasons)
  BY DEF IsInjective, R!IsInjective
<1> QED
  BY <1>9, <1>10 DEF R!VerdictIsHonest, verdict, evidence, assessment

(***************************************************************************)
(* For any request, a strategy asks for a trait and rules it out only when *)
(* titles are asked for without the word "generate"                        *)
(* (src/flow/design/architecture.ts).                                      *)
(***************************************************************************)
THEOREM TraitsOfAllRequests ==
  ASSUME NEW request
  PROVE  R!TraitsAgree(request)
<1> DEFINE operations == R!Operations(request)
           facets == R!Brief(request).facets
<1>1. /\ facets.preferred = R!PreferredTraits(request, operations)
      /\ facets.disallowed = R!DisallowedTraits(request, operations)
  BY DEF R!Brief, R!BriefOf
<1>2. request.taskType = "blog-title-generation" /\ "generate" \in request.words =>
        "generate" \in operations
  BY DEF R!Operations, R!OperationWords, R!When
<1> HIDE DEF operations, facets
<1>3. facets.preferred \cap facets.disallowed # {} =>
        request.taskType = "blog-title-generation" /\ "generate" \notin operations
  BY <1>1 DEF R!PreferredTraits, R!DisallowedTraits, R!When, R!Extracts
<1> QED
  BY <1>2, <1>3 DEF R!TraitsAgree, facets

\* What a user asks is a request that the theorems above are about.
Asked ==
  \A request \in requests :
    /\ request = [words |-> request.words, format |-> request.format,
                  taskType |-> request.taskType]
    /\ request.format \in R!Formats

(***************************************************************************)
(* The lab's verdict on any run for a request, and the strategy the run    *)
(* followed, are honest whatever words a user writes, in whatever order    *)
(* and however many, and however the request is classified                 *)
(* (prompt-lab/product.ts:293-330, architecture.ts:165-190).               *)
(***************************************************************************)
THEOREM VerdictsStayHonest == RequestSpec => []VerdictsAreHonest
<1>1. RequestInit => Asked
  BY DEF RequestInit, Asked
<1>2. Asked /\ [RequestNext]_requests => Asked'
  <2> SUFFICES ASSUME Asked, [RequestNext]_requests PROVE Asked'
    OBVIOUS
  <2>1. ASSUME NEW format \in R!Formats, NEW taskType \in RequestTypes, Ask(format, taskType)
        PROVE  Asked'
    BY <2>1 DEF Ask, Asked
  <2>2. ASSUME NEW word \in Words, AddWord(word) PROVE Asked'
    <3>1. PICK request \in requests :
            requests' = {[request EXCEPT !.words = @ \cup {word}]}
      BY <2>2 DEF AddWord
    <3> DEFINE next == [request EXCEPT !.words = @ \cup {word}]
    <3>2. /\ request = [words |-> request.words, format |-> request.format,
                         taskType |-> request.taskType]
          /\ request.format \in R!Formats
      BY DEF Asked
    <3>3. next = [words |-> request.words \cup {word}, format |-> request.format,
                  taskType |-> request.taskType]
      BY <3>2
    <3> QED
      BY <3>1, <3>2, <3>3 DEF Asked
  <2>3. CASE UNCHANGED requests
    BY <2>3 DEF Asked
  <2> QED
    BY <2>1, <2>2, <2>3 DEF RequestNext
<1>3. Asked => VerdictsAreHonest
  <2> SUFFICES ASSUME Asked, NEW request \in requests
               PROVE  /\ \A run \in Runs : R!VerdictIsHonest(run, request)
                      /\ R!TraitsAgree(request)
    BY DEF VerdictsAreHonest
  <2>1. request.format \in R!Formats
    BY DEF Asked
  <2>2. ASSUME NEW run \in Runs PROVE R!VerdictIsHonest(run, request)
    <3>1. /\ run.aiNode \in {"text", "json", "json-schema"}
          /\ run.taskGraphFallback \in BOOLEAN /\ run.mockModel \in BOOLEAN
          /\ run.missing \in BOOLEAN
      BY DEF Runs
    <3> QED
      BY <2>1, <3>1, VerdictsOfAllRuns
  <2> QED
    BY <2>2, TraitsOfAllRequests
<1> QED
  BY <1>1, <1>2, <1>3, PTL DEF RequestSpec

-----------------------------------------------------------------------------
(* Sums of times. *)

Times == Seq(Nat)

\* The sums of the first i times.
Sums(times, sum) ==
  /\ sum \in [0..Len(times) -> Nat]
  /\ sum[0] = 0
  /\ \A i \in 1..Len(times) : sum[i] = sum[i - 1] + times[i]

\* The recursive function of Total exists.
LEMMA TotalIs ==
  ASSUME NEW times \in Times
  PROVE  \E sum : Sums(times, sum) /\ M!Total(times) = sum[Len(times)]
<1> DEFINE n == Len(times)
           step == [x \in Nat \X Nat |-> IF x[2] \in 1..n THEN x[1] + times[x[2]] ELSE x[1]]
           Rhs(f) == [i \in 0..n |-> IF i = 0 THEN 0 ELSE f[i - 1] + times[i]]
           sum == CHOOSE f : f = Rhs(f)
<1>1. n \in Nat /\ \A i \in 1..n : times[i] \in Nat
  BY DEF Times
<1>2. M!Total(times) = sum[n]
  BY DEF M!Total
<1> HIDE DEF n
<1>4. step \in [Nat \X Nat -> Nat]
  BY <1>1
<1>5. \A x \in Nat, i \in 1..n : step[<<x, i>>] = x + times[i]
  <2> TAKE x \in Nat, i \in 1..n
  <2>1. <<x, i>> \in Nat \X Nat
    BY <1>1
  <2> QED
    BY <2>1
<1> HIDE DEF step
<1>6. PICK g : Primitive(g, Nat, 0, step, n)
  BY <1>1, <1>4, Recursive
<1>7. \A i \in 1..n : i - 1 \in 0..n /\ i # 0 /\ i \in 0..n
  BY <1>1
<1>8. \A i \in 1..n : g[i] = g[i - 1] + times[i]
  BY <1>5, <1>6, <1>7 DEF Primitive
<1>9. g = Rhs(g)
  <2>1. \A i \in 0..n : i = 0 \/ i \in 1..n
    BY <1>1
  <2>2. \A i \in 0..n : g[i] = IF i = 0 THEN 0 ELSE g[i - 1] + times[i]
    BY <1>6, <1>8, <2>1 DEF Primitive
  <2>3. \A i \in 0..n : Rhs(g)[i] = g[i]
    BY <2>2
  <2>4. Rhs(g) = [i \in 0..n |-> Rhs(g)[i]]
    OBVIOUS
  <2> HIDE DEF Rhs
  <2> QED
    BY <1>6, <2>3, <2>4 DEF Primitive
<1>10. sum = Rhs(sum)
  BY <1>9
<1> HIDE DEF sum
<1>11. DOMAIN sum = 0..n /\ sum = [i \in DOMAIN sum |-> sum[i]] /\ sum[0] = 0
  BY <1>1, <1>10
<1>12. \A i \in 1..n : sum[i] = sum[i - 1] + times[i]
  BY <1>7, <1>10
<1>13. \A i \in 1..n : sum[i - 1] \in Nat => sum[i] \in Nat
  BY <1>1, <1>12
<1>14. sum \in [0..n -> Nat]
  <2>1. n \in Nat /\ sum[0] \in Nat
    BY <1>1, <1>11
  <2> QED
    BY <1>11, <1>13, <2>1, RecursiveType
<1> QED
  BY <1>2, <1>11, <1>12, <1>14 DEF Sums, n

\* What the sums are made of.
LEMMA SumsTyped ==
  ASSUME NEW times \in Times, NEW sum, Sums(times, sum)
  PROVE  /\ Len(times) \in Nat /\ sum[0] = 0
         /\ \A i \in 0..Len(times) : sum[i] \in Nat
<1>1. sum \in [0..Len(times) -> Nat] /\ sum[0] = 0
  BY DEF Sums
<1>2. Len(times) \in Nat
  BY DEF Times
<1> QED
  BY <1>1, <1>2

LEMMA SumsStep ==
  ASSUME NEW times \in Times, NEW sum, Sums(times, sum), NEW i \in 1..Len(times)
  PROVE  /\ sum[i] = sum[i - 1] + times[i]
         /\ times[i] \in Nat /\ sum[i - 1] \in Nat /\ sum[i] \in Nat
<1>1. sum[i] = sum[i - 1] + times[i]
  BY DEF Sums
<1>2. Len(times) \in Nat
  BY DEF Times
<1>3. i \in 0..Len(times) /\ i - 1 \in 0..Len(times)
  BY <1>2
<1>4. times[i] \in Nat
  BY DEF Times
<1> QED
  BY <1>1, <1>3, <1>4, SumsTyped

LEMMA TotalTyped ==
  ASSUME NEW times \in Times
  PROVE  M!Total(times) \in Nat
<1>1. PICK sum : Sums(times, sum) /\ M!Total(times) = sum[Len(times)]
  BY TotalIs
<1>2. Len(times) \in 0..Len(times)
  BY DEF Times
<1> QED
  BY <1>1, <1>2 DEF Sums

\* n entries of a, from m on, are those of b, from k on.
Agree(a, m, b, k, n) ==
  /\ m \in Nat /\ k \in Nat /\ n \in Nat /\ m + n <= Len(a) /\ k + n <= Len(b)
  /\ \A i \in 1..n : a[m + i] = b[k + i]

\* Sums that agree up to a difference before a point go on with it.
LEMMA SameMore ==
  ASSUME NEW i \in Nat, NEW j \in Nat, NEW k \in Nat, NEW l \in Nat, NEW m \in Nat, i - j = k - l
  PROVE  (i + m) - j = (k + m) - l
  OBVIOUS

LEMMA SumsGoOn ==
  ASSUME NEW a \in Times, NEW b \in Times, NEW f, NEW g, Sums(a, f), Sums(b, g),
         NEW m, NEW k, NEW n, Agree(a, m, b, k, n)
  PROVE  f[m + n] - f[m] = g[k + n] - g[k]
<1> DEFINE Alike(i) == f[m + i] - f[m] = g[k + i] - g[k]
           T == {i \in 0..n : Alike(i)}
<1>0. Len(a) \in Nat /\ Len(b) \in Nat /\ m \in Nat /\ k \in Nat /\ n \in Nat
  BY DEF Agree, Times
<1>1. \A i \in 0..n : m + i \in 0..Len(a) /\ k + i \in 0..Len(b)
  BY <1>0 DEF Agree
<1>2. /\ m + 0 = m /\ k + 0 = k /\ 0 \in 0..n
      /\ m \in 0..Len(a) /\ k \in 0..Len(b)
  BY <1>0, <1>1
<1>3. f[m] \in Nat /\ g[k] \in Nat
  BY <1>2, SumsTyped
<1>4. 0 \in T
  BY <1>2, <1>3
<1>5. ASSUME NEW i \in 0..(n - 1), i \in T PROVE i + 1 \in T
  <2>1. /\ i \in 0..n /\ i + 1 \in 0..n /\ i + 1 \in 1..n
        /\ m + (i + 1) = (m + i) + 1 /\ k + (i + 1) = (k + i) + 1
    BY <1>0
  <2>2. /\ m + i \in 0..Len(a) /\ m + (i + 1) \in 0..Len(a)
        /\ k + i \in 0..Len(b) /\ k + (i + 1) \in 0..Len(b)
    BY <1>1, <2>1
  <2> DEFINE p == m + i q == k + i
  <2>3. a[p + 1] = b[q + 1]
    <3>1. a[m + (i + 1)] = b[k + (i + 1)]
      BY <2>1 DEF Agree
    <3> QED
      BY <2>1, <3>1
  <2>4. p \in Nat /\ q \in Nat /\ p + 1 <= Len(a) /\ q + 1 <= Len(b)
    BY <1>0, <2>1, <2>2
  <2>5. f[p] - f[m] = g[q] - g[k]
    BY <1>5
  <2> HIDE DEF p, q
  <2>6. p + 1 \in 1..Len(a) /\ q + 1 \in 1..Len(b) /\ (p + 1) - 1 = p /\ (q + 1) - 1 = q
    BY <1>0, <2>4
  <2>10. f[p + 1] = f[p] + a[p + 1] /\ a[p + 1] \in Nat /\ f[p] \in Nat
    BY <2>6, SumsStep
  <2>7. PICK x \in Nat : x = a[p + 1] /\ f[p + 1] = f[p] + x /\ f[p] \in Nat
    BY <2>10
  <2>8. g[q + 1] = g[q] + x /\ g[q] \in Nat
    BY <2>3, <2>6, <2>7, SumsStep
  <2>9. f[p + 1] - f[m] = g[q + 1] - g[k]
    BY <1>3, <2>5, <2>7, <2>8, SameMore
  <2> QED
    BY <2>1, <2>9 DEF p, q
<1>6. \A i \in 0..n : i \in T
  <2> HIDE DEF T
  <2> QED
    BY <1>0, <1>4, <1>5, UpTo
<1>7. n \in 0..n
  BY <1>0
<1>8. n \in T
  BY <1>6, <1>7
<1> QED
  BY <1>8

LEMMA TotalAppend ==
  ASSUME NEW times \in Times, NEW time \in Nat
  PROVE  M!Total(Append(times, time)) = M!Total(times) + time
<1> DEFINE a == Append(times, time) n == Len(times)
<1>1. /\ a \in Times /\ Len(a) = n + 1 /\ a[n + 1] = time /\ n \in Nat
      /\ Agree(a, 0, times, 0, n)
  BY DEF Agree, Times
<1>2. PICK f : Sums(times, f) /\ M!Total(times) = f[n]
  BY TotalIs
<1>3. PICK g : Sums(a, g) /\ M!Total(a) = g[n + 1]
  BY <1>1, TotalIs
<1> HIDE DEF a
<1>4. g[0 + n] - g[0] = f[0 + n] - f[0]
  BY <1>1, <1>2, <1>3, SumsGoOn
<1>5. f[n] \in Nat /\ g[0] = 0 /\ f[0] = 0
  BY <1>1, <1>2, <1>3, SumsTyped
<1>6. g[n + 1] = g[(n + 1) - 1] + a[n + 1] /\ g[(n + 1) - 1] \in Nat
  <2>1. n + 1 \in 1..Len(a)
    BY <1>1
  <2> QED
    BY <1>1, <1>3, <2>1, SumsStep
<1>7. (n + 1) - 1 = n /\ 0 + n = n
  BY <1>1
<1>8. g[n] = f[n]
  BY <1>4, <1>5, <1>6, <1>7
<1>9. M!Total(a) = M!Total(times) + time
  BY <1>1, <1>2, <1>3, <1>6, <1>7, <1>8
<1> QED
  BY <1>9 DEF a

LEMMA TotalConcat ==
  ASSUME NEW a \in Times, NEW b \in Times
  PROVE  M!Total(a \o b) = M!Total(a) + M!Total(b)
<1> DEFINE c == a \o b m == Len(a) n == Len(b)
<1>1. c \in Times /\ Len(c) = m + n /\ m \in Nat /\ n \in Nat
  BY ConcatProperties DEF Times
<1>2. Agree(c, 0, a, 0, m) /\ Agree(c, m, b, 0, n)
  BY <1>1, ConcatProperties DEF Agree, Times
<1>3. PICK f : Sums(a, f) /\ M!Total(a) = f[m]
  BY TotalIs
<1>4. PICK g : Sums(b, g) /\ M!Total(b) = g[n]
  BY TotalIs
<1>5. PICK h : Sums(c, h) /\ M!Total(c) = h[m + n]
  BY <1>1, TotalIs
<1> HIDE DEF c
<1>6. h[0 + m] - h[0] = f[0 + m] - f[0]
  BY <1>1, <1>2, <1>3, <1>5, SumsGoOn
<1>7. h[m + n] - h[m] = g[0 + n] - g[0]
  BY <1>1, <1>2, <1>4, <1>5, SumsGoOn
<1>8. h[0] = 0 /\ f[0] = 0 /\ g[0] = 0
  BY <1>1, <1>3, <1>4, <1>5, SumsTyped
<1>9. h[m] \in Nat /\ h[m + n] \in Nat
  <2>1. m \in 0..Len(c) /\ m + n \in 0..Len(c)
    BY <1>1
  <2> QED
    BY <1>1, <1>5, <2>1, SumsTyped
<1>10. f[m] \in Nat /\ g[n] \in Nat
  <2>1. m \in 0..Len(a) /\ n \in 0..Len(b)
    BY <1>1
  <2> QED
    BY <1>3, <1>4, <2>1, SumsTyped
<1>11. 0 + m = m /\ 0 + n = n
  BY <1>1
<1>12. h[m] = f[m] /\ h[m + n] - h[m] = g[n]
  BY <1>6, <1>7, <1>8, <1>9, <1>10, <1>11
<1> QED
  BY <1>3, <1>4, <1>5, <1>9, <1>10, <1>12 DEF c

\* What changing one time changes.
LEMMA TotalExcept ==
  ASSUME NEW times \in Times, NEW c \in DOMAIN times, NEW time \in Nat
  PROVE  /\ [times EXCEPT ![c] = time] \in Times
         /\ M!Total([times EXCEPT ![c] = time]) + times[c] = M!Total(times) + time
<1> DEFINE b == [times EXCEPT ![c] = time] n == Len(times)
<1>1. b \in Times /\ Len(b) = n /\ b[c] = time /\ n \in Nat /\ c \in 1..n
  BY DEF Times
<1>2. Agree(b, 0, times, 0, c - 1) /\ Agree(b, c, times, c, n - c)
  <2>1. \A i \in 1..n : i # c => b[i] = times[i]
    BY DEF Times
  <2>9. Len(times) = n
    OBVIOUS
  <2> HIDE DEF b, n
  <2>2. \A i \in 1..(c - 1) : 0 + i = i /\ i \in 1..n /\ i # c
    BY <1>1
  <2>3. \A i \in 1..(n - c) : c + i \in 1..n /\ c + i # c
    BY <1>1
  <2>4. \A i \in 1..(c - 1) : b[0 + i] = times[0 + i]
    BY <2>1, <2>2
  <2>5. \A i \in 1..(n - c) : b[c + i] = times[c + i]
    BY <2>1, <2>3
  <2>6. /\ 0 \in Nat /\ c \in Nat /\ c - 1 \in Nat /\ n - c \in Nat
        /\ 0 + (c - 1) <= n /\ c + (n - c) <= n
    BY <1>1
  <2>7. Agree(b, 0, times, 0, c - 1)
    BY <1>1, <2>4, <2>6, <2>9 DEF Agree
  <2>8. Agree(b, c, times, c, n - c)
    BY <1>1, <2>5, <2>6, <2>9 DEF Agree
  <2> QED
    BY <2>7, <2>8
<1>3. PICK f : Sums(times, f) /\ M!Total(times) = f[n]
  BY TotalIs
<1>4. PICK g : Sums(b, g) /\ M!Total(b) = g[n]
  BY <1>1, TotalIs
<1>15. Len(times) = n
  OBVIOUS
<1> HIDE DEF b, n
<1>5. g[0 + (c - 1)] - g[0] = f[0 + (c - 1)] - f[0]
  BY <1>1, <1>2, <1>3, <1>4, SumsGoOn
<1>6. g[c + (n - c)] - g[c] = f[c + (n - c)] - f[c]
  BY <1>1, <1>2, <1>3, <1>4, SumsGoOn
<1>7. 0 + (c - 1) = c - 1 /\ c + (n - c) = n
  BY <1>1
<1>8. f[c] = f[c - 1] + times[c] /\ times[c] \in Nat /\ f[c - 1] \in Nat /\ f[c] \in Nat
  BY <1>1, <1>3, <1>15, SumsStep
<1>9. g[c] = g[c - 1] + time /\ g[c - 1] \in Nat /\ g[c] \in Nat
  <2>1. c \in 1..Len(b)
    BY <1>1
  <2> QED
    BY <1>1, <1>4, <2>1, SumsStep
<1>10. g[0] = 0 /\ f[0] = 0 /\ f[n] \in Nat /\ g[n] \in Nat
  <2>1. n \in 0..n
    BY <1>1
  <2> QED
    BY <1>1, <1>3, <1>4, <1>15, <2>1, SumsTyped
<1>11. g[c - 1] = f[c - 1] /\ g[n] - g[c] = f[n] - f[c]
  BY <1>5, <1>6, <1>7, <1>8, <1>9, <1>10
<1>12. g[n] + times[c] = f[n] + time
  BY <1>8, <1>9, <1>10, <1>11
<1> QED
  BY <1>1, <1>3, <1>4, <1>12 DEF b

\* A sum of longer times is no smaller.
LEMMA TotalGrows ==
  ASSUME NEW a \in Times, NEW b \in Times, Len(a) = Len(b),
         \A i \in 1..Len(a) : a[i] <= b[i]
  PROVE  M!Total(a) <= M!Total(b)
<1> DEFINE n == Len(a)
<1>0. n \in Nat
  BY DEF Times
<1>1. PICK f : Sums(a, f) /\ M!Total(a) = f[n]
  BY TotalIs
<1>2. PICK g : Sums(b, g) /\ M!Total(b) = g[n]
  BY TotalIs
<1> DEFINE T == {i \in 0..n : f[i] <= g[i]}
<1>3. 0 \in T
  <2>1. f[0] = 0 /\ g[0] = 0
    BY <1>1, <1>2, SumsTyped
  <2> QED
    BY <1>0, <2>1
<1>4. ASSUME NEW i \in 0..(n - 1), i \in T PROVE i + 1 \in T
  <2> DEFINE j == i + 1
  <2>1. j \in 1..n /\ j \in 1..Len(b) /\ j \in 0..n /\ j - 1 = i
    BY <1>0
  <2> HIDE DEF j
  <2>2. f[j] = f[j - 1] + a[j] /\ a[j] \in Nat /\ f[j - 1] \in Nat
    BY <1>1, <2>1, SumsStep
  <2>3. g[j] = g[j - 1] + b[j] /\ b[j] \in Nat /\ g[j - 1] \in Nat
    BY <1>2, <2>1, SumsStep
  <2>4. f[j - 1] <= g[j - 1] /\ a[j] <= b[j]
    BY <1>4, <2>1
  <2>5. f[j] <= g[j]
    BY <2>2, <2>3, <2>4
  <2> QED
    BY <2>1, <2>5 DEF j
<1>5. \A i \in 0..n : i \in T
  <2> HIDE DEF T
  <2> QED
    BY <1>0, <1>3, <1>4, UpTo
<1>6. n \in T
  BY <1>0, <1>5
<1> QED
  BY <1>1, <1>2, <1>6


-----------------------------------------------------------------------------
(* Rates and averages. *)

LEMMA DivisionFacts ==
  ASSUME NEW a \in Nat, NEW b \in Nat \ {0}
  PROVE  a \div b \in Nat /\ b * (a \div b) <= a /\ a < b * (a \div b) + b
  OBVIOUS

LEMMA ProductGrows ==
  ASSUME NEW i \in Nat, NEW j \in Nat, NEW b \in Nat, i <= j
  PROVE  b * i <= b * j
  OBVIOUS

LEMMA ProductOfSum ==
  ASSUME NEW i \in Nat, NEW j \in Nat, NEW b \in Nat
  PROVE  b * (i + j) = b * i + b * j
  OBVIOUS

\* A rounded quotient is at most k when the quotient is less than k and a half.
LEMMA RoundedAtMost ==
  ASSUME NEW a \in Nat, NEW b \in Nat \ {0}, NEW k \in Nat
  PROVE  /\ M!Rounded(a, b) \in Nat
         /\ M!Rounded(a, b) <= k <=> 2000 * a < (2 * k + 1) * b
<1> DEFINE n == 2000 * a + b d == 2 * b q == M!Rounded(a, b)
<1>1. n \in Nat /\ d \in Nat \ {0}
  OBVIOUS
<1>2. q = n \div d
  BY DEF M!Rounded
<1>3. q \in Nat /\ d * q <= n /\ n < d * q + d
  <2> HIDE DEF n, d
  <2> QED
    BY <1>1, <1>2, DivisionFacts
<1>4. d * (k + 1) = (2 * k + 1) * b + b /\ d * (k + 1) \in Nat
  OBVIOUS
<1>5. ASSUME q <= k PROVE n < d * (k + 1)
  <2>1. q + 1 \in Nat /\ k + 1 \in Nat /\ q + 1 <= k + 1
    BY <1>3, <1>5
  <2>2. d * (q + 1) <= d * (k + 1) /\ d * (q + 1) = d * q + d
    <3> HIDE DEF n, d, q
    <3>1. d * (q + 1) = d * q + d * 1 /\ d * 1 = d
      BY <1>1, <1>3, ProductOfSum
    <3> QED
      BY <1>1, <2>1, <3>1, ProductGrows
  <2>3. d * q \in Nat
    <3> HIDE DEF n, d, q
    <3> QED
      BY <1>1, <1>3
  <2> HIDE DEF n, d, q
  <2> QED
    BY <1>1, <1>3, <1>4, <2>2, <2>3
<1>6. ASSUME n < d * (k + 1) PROVE q <= k
  <2>1. SUFFICES ASSUME k + 1 <= q PROVE FALSE
    BY <1>3
  <2>2. d * (k + 1) <= d * q
    <3> HIDE DEF n, d, q
    <3> QED
      BY <1>1, <1>3, <2>1, ProductGrows
  <2>3. d * q \in Nat
    <3> HIDE DEF n, d, q
    <3> QED
      BY <1>1, <1>3
  <2> HIDE DEF n, d, q
  <2> QED
    BY <1>1, <1>3, <1>4, <1>6, <2>2, <2>3
<1>7. n < d * (k + 1) <=> 2000 * a < (2 * k + 1) * b
  BY <1>4
<1> HIDE DEF n, d
<1> QED
  BY <1>3, <1>5, <1>6, <1>7

LEMMA RoundedZero ==
  ASSUME NEW b \in Nat \ {0}
  PROVE  M!Rounded(0, b) = 0
<1>1. 2000 * 0 < (2 * 0 + 1) * b
  OBVIOUS
<1>2. M!Rounded(0, b) \in Nat /\ M!Rounded(0, b) <= 0
  BY <1>1, RoundedAtMost
<1> QED
  BY <1>2

-----------------------------------------------------------------------------
(* Evaluations. *)

\* The operators that LabMeasurements takes from other modules.
LEMMA SameCardinality == \A S : M!Cardinality(S) = Cardinality(S)
  BY DEF M!Cardinality, Cardinality, M!IsFiniteSet, IsFiniteSet

LEMMA SameFlattenSeq == \A S : M!FlattenSeq(S) = FlattenSeq(S)
  BY DEF M!FlattenSeq, FlattenSeq

Answer == {"good", "throws", "weak", "unknown"}
Good(s) == s.answer = "good"
Erred(s) == s.answer \in {"throws", "unknown"}

\* What becomes of an answer.
LEMMA AnswersAre ==
  ASSUME NEW s \in Scenarios
  PROVE  /\ M!ByModel(s) <=> Good(s)
         /\ M!Failed(s) <=> Erred(s)
         /\ M!Fallbacks(s.answer, TRUE) = 0 <=> Good(s)
         /\ Good(s) => M!Resolution(s.answer, TRUE) = "model"
         /\ s.passed \in BOOLEAN /\ s.ms \in Nat
<1>1. s.answer \in Answer /\ s.passed \in BOOLEAN /\ s.ms \in Nat
  BY ScenariosAssumption DEF Answer
<1>2. M!ByModel(s) <=> Good(s)
  BY <1>1 DEF M!ByModel, M!Outcome, Good
<1>3. M!Fallbacks(s.answer, TRUE) = 0 <=> Good(s)
  BY <1>1 DEF M!Fallbacks, Good, Answer
<1>4. s.answer \in Answer => M!Resolution(s.answer, TRUE) =
        CASE s.answer = "good" -> "model"
          [] s.answer = "throws" -> "fallback-error"
          [] s.answer = "weak" -> "fallback-threshold"
          [] s.answer = "unknown" -> "fallback-error"
  <2>1. \A a, b : M!Last(<<a>>) = a /\ M!Last(<<a, b>>) = b
    BY DEF M!Last
  <2>2. CASE s.answer = "good"
    BY <2>1, <2>2 DEF M!Resolution, M!Decisions
  <2>3. CASE s.answer = "throws"
    BY <2>1, <2>3 DEF M!Resolution, M!Decisions
  <2>4. CASE s.answer = "weak"
    BY <2>1, <2>4 DEF M!Resolution, M!Decisions
  <2>5. CASE s.answer = "unknown"
    BY <2>1, <2>5 DEF M!Resolution, M!Decisions
  <2> QED
    BY <1>1, <2>2, <2>3, <2>4, <2>5 DEF Answer
<1>5. M!Failed(s) <=> Erred(s)
  BY <1>1, <1>4 DEF M!Failed, Erred, Answer
<1> QED
  BY <1>1, <1>2, <1>3, <1>4, <1>5 DEF Good

LEMMA RiskIs ==
  ASSUME NEW timing, NEW limits, NEW allErrors \in BOOLEAN
  PROVE  LET risk == M!LatencyRisk(timing, limits, allErrors)
         IN  /\ risk \in {"warning", "high", "acceptable"}
             /\ allErrors => risk = "warning"
             /\ risk = "acceptable" => ~(timing.average > 1000 * limits.average)
<1> DEFINE exceeded == M!Exceeded(timing, limits)
           risk == M!LatencyRisk(timing, limits, allErrors)
<1>1. exceeded \in {{}, {"average"}, {"p95"}, {"average", "p95"}}
  <2>1. exceeded \in SUBSET {"average", "p95"}
    BY DEF M!Exceeded
  <2> HIDE DEF exceeded
  <2> QED
    BY <2>1
<1>2. "average" \in exceeded <=> timing.average > 1000 * limits.average
  BY DEF M!Exceeded
<1>3. risk = CASE allErrors \/ Cardinality(exceeded) = 1 -> "warning"
               [] ~allErrors /\ Cardinality(exceeded) = 2 -> "high"
               [] ~allErrors /\ exceeded = {} -> "acceptable"
  BY SameCardinality DEF M!LatencyRisk
<1>4. Cardinality({"average"}) = 1 /\ Cardinality({"p95"}) = 1 /\ Cardinality({}) = 0
  BY FS_Singleton, FS_EmptySet
<1>5. Cardinality({"average", "p95"}) = 2
  <2>1. IsFiniteSet({"average"}) /\ "p95" \notin {"average"}
    BY FS_Singleton
  <2>2. {"average"} \cup {"p95"} = {"average", "p95"}
    OBVIOUS
  <2> QED
    BY <1>4, <2>1, <2>2, FS_AddElement
<1> HIDE DEF exceeded, risk
<1>6. CASE exceeded = {}
  BY <1>2, <1>3, <1>4, <1>6 DEF risk
<1>7. CASE exceeded = {"average"}
  BY <1>2, <1>3, <1>4, <1>7 DEF risk
<1>8. CASE exceeded = {"p95"}
  BY <1>2, <1>3, <1>4, <1>8 DEF risk
<1>9. CASE exceeded = {"average", "p95"}
  BY <1>2, <1>3, <1>5, <1>9 DEF risk
<1> QED
  BY <1>1, <1>6, <1>7, <1>8, <1>9

\* How long the scenarios took.
Lengths(s) == [i \in 1..Len(s) |-> s[i].ms]

LEMMA LengthsTyped ==
  ASSUME NEW s \in Seq(Scenarios)
  PROVE  Lengths(s) \in Times
<1>1. \A i \in 1..Len(s) : s[i].ms \in Nat
  <2>1. \A i \in 1..Len(s) : s[i] \in Scenarios
    OBVIOUS
  <2> QED
    BY <2>1, AnswersAre
<1>2. Len(s) \in Nat
  OBVIOUS
<1> QED
  BY <1>1, <1>2, IsASeq DEF Lengths, Times

\* Their rounded average is at most the accepted one.
Fits(s, most) == 2000 * M!Total(Lengths(s)) < (2 * (1000 * most) + 1) * Len(s)

LimitRecords == [pass : Nat \ {0}, fallback : Nat, average : Nat, p95 : Nat]

LEMMA AverageIs ==
  ASSUME NEW s \in Seq(Scenarios), s # <<>>, NEW most \in Nat
  PROVE  /\ M!Timing(s).average \in Nat
         /\ M!Timing(s).average <= 1000 * most <=> Fits(s, most)
<1>1. M!Timing(s).average = M!Rounded(M!Total(Lengths(s)), Len(s))
  BY DEF M!Timing, Lengths
<1>2. M!Total(Lengths(s)) \in Nat
  BY LengthsTyped, TotalTyped
<1>3. Len(s) \in Nat \ {0}
  BY EmptySeq
<1>4. 1000 * most \in Nat
  OBVIOUS
<1> DEFINE k == 1000 * most a == M!Total(Lengths(s)) b == Len(s)
<1>6. k \in Nat
  BY <1>4
<1>7. a \in Nat
  BY <1>2
<1>8. b \in Nat \ {0}
  BY <1>3
<1>5. M!Rounded(a, b) \in Nat /\ (M!Rounded(a, b) <= k <=> 2000 * a < (2 * k + 1) * b)
  <2> HIDE DEF k, a, b
  <2> QED
    BY <1>6, <1>7, <1>8, RoundedAtMost
<1> QED
  BY <1>1, <1>5 DEF Fits


\* What a suite's result says.
LEMMA SuiteIs ==
  ASSUME NEW s \in Seq(Scenarios), s # <<>>, NEW limits \in LimitRecords
  PROVE  LET result == M!Suite(s, limits)
             allErred == \A i \in 1..Len(s) : Erred(s[i])
         IN  /\ result.accepted \in BOOLEAN
             /\ result.accepted => \E i \in 1..Len(s) : Good(s[i]) /\ s[i].passed
             /\ result.status = IF allErred THEN "inconclusive"
                                ELSE IF result.accepted THEN "passed" ELSE "failed"
             /\ result.risk \in {"warning", "high", "acceptable"}
             /\ allErred => result.risk = "warning"
             /\ result.risk = "acceptable" => Fits(s, limits.average)
<1> DEFINE n == Len(s)
           decided == M!Decided(s)
           decisions == Cardinality(decided)
           good == {i \in decided : s[i].passed}
           passed == Cardinality(good)
           decisionRate == M!Rounded(decisions, n)
           passRate == IF decisions > 0 THEN M!Rounded(passed, decisions) ELSE 0
           fallbackRate == M!Rounded(n - decisions, n)
           accepted == decisionRate > 0 /\ passRate >= limits.pass /\ fallbackRate <= limits.fallback
           allErrors == M!AllErrors(s)
           allErred == \A i \in 1..n : Erred(s[i])
           result == M!Suite(s, limits)
<1>1. /\ result.accepted = accepted
      /\ result.status = IF allErrors THEN "inconclusive" ELSE IF accepted THEN "passed" ELSE "failed"
      /\ result.risk = M!LatencyRisk(M!Timing(s), limits, allErrors)
  BY SameCardinality DEF M!Suite
<1>2. n \in Nat \ {0} /\ \A i \in 1..n : s[i] \in Scenarios
  BY EmptySeq
<1>3. allErrors <=> allErred
  <2>1. DOMAIN s = 1..n
    OBVIOUS
  <2> QED
    BY <1>2, <2>1, AnswersAre DEF M!AllErrors
<1>4. decided = {i \in 1..n : Good(s[i])} /\ IsFiniteSet(decided) /\ decisions \in Nat
  <2>1. decided = {i \in 1..n : Good(s[i])}
    <3>1. DOMAIN s = 1..n
      OBVIOUS
    <3>2. \A i \in 1..n : M!ByModel(s[i]) <=> Good(s[i])
      BY <1>2, AnswersAre
    <3> QED
      BY <3>1, <3>2 DEF M!Decided
  <2>2. IsFiniteSet(1..n)
    BY <1>2, FS_Interval
  <2> QED
    BY <2>1, <2>2, FS_Subset, FS_CardinalityType
<1>5. accepted => good # {}
  <2> SUFFICES ASSUME accepted, good = {} PROVE FALSE
    OBVIOUS
  <2>1. passed = 0
    BY FS_EmptySet
  <2>2. passRate = 0
    <3> HIDE DEF decisions, passed
    <3> QED
      BY <1>4, <2>1, RoundedZero
  <2>3. limits.pass \in Nat \ {0}
    BY DEF LimitRecords
  <2> HIDE DEF passRate
  <2> QED
    BY <2>2, <2>3
<1>6. accepted => \E i \in 1..n : Good(s[i]) /\ s[i].passed
  BY <1>4, <1>5
<1>7. allErrors \in BOOLEAN
  BY DEF M!AllErrors
<1>8. /\ result.risk \in {"warning", "high", "acceptable"}
      /\ allErrors => result.risk = "warning"
      /\ result.risk = "acceptable" => ~(M!Timing(s).average > 1000 * limits.average)
  <2> HIDE DEF allErrors, result
  <2> QED
    BY <1>1, <1>7, RiskIs
<1>9. ~(M!Timing(s).average > 1000 * limits.average) => Fits(s, limits.average)
  <2> DEFINE most == limits.average
  <2>1. most \in Nat
    BY DEF LimitRecords
  <2> HIDE DEF most
  <2>2. 1000 * most \in Nat
    BY <2>1
  <2>3. M!Timing(s).average \in Nat /\ (M!Timing(s).average <= 1000 * most => Fits(s, most))
    BY <2>1, AverageIs
  <2>4. ~(M!Timing(s).average > 1000 * most) => Fits(s, most)
    <3> DEFINE average == M!Timing(s).average k == 1000 * most
    <3> HIDE DEF average, k
    <3>1. average \in Nat /\ k \in Nat /\ (average <= k => Fits(s, most))
      BY <2>2, <2>3 DEF average, k
    <3>2. ~(average > k) => average <= k
      BY <3>1
    <3> QED
      BY <3>1, <3>2 DEF average, k
  <2> QED
    BY <2>4 DEF most
<1>10. accepted \in BOOLEAN
  OBVIOUS
<1> HIDE DEF result, accepted, allErrors, allErred
<1>11. /\ result.accepted \in BOOLEAN
       /\ result.accepted => \E i \in 1..n : Good(s[i]) /\ s[i].passed
  BY <1>1, <1>6, <1>10
<1>12. result.status = IF allErred THEN "inconclusive"
                       ELSE IF result.accepted THEN "passed" ELSE "failed"
  BY <1>1, <1>3
<1>13. /\ result.risk \in {"warning", "high", "acceptable"}
       /\ allErred => result.risk = "warning"
       /\ result.risk = "acceptable" => Fits(s, limits.average)
  BY <1>3, <1>8, <1>9
<1> QED
  BY <1>11, <1>12, <1>13 DEF result, allErred

-----------------------------------------------------------------------------
(* The suites, one after the other. *)

Suites == Seq(Scenarios) \ {<<>>}

\* The scenarios of the first i suites.
Flattened(S, flat) ==
  /\ flat[1] = S[1]
  /\ \A i \in 2..Len(S) : flat[i] = flat[i - 1] \o S[i]

\* The recursive function of FlattenSeq exists.
LEMMA FlattenIs ==
  ASSUME NEW S \in Seq(Suites), S # <<>>
  PROVE  \E flat : Flattened(S, flat) /\ FlattenSeq(S) = flat[Len(S)]
<1> DEFINE n == Len(S)
           All == Seq(Scenarios)
           step == [x \in All \X Nat |-> IF x[2] \in 1..n THEN x[1] \o S[x[2]] ELSE x[1]]
           Rhs(f) == [i \in 1..n |-> IF i = 1 THEN S[i] ELSE f[i - 1] \o S[i]]
           flat == CHOOSE f : f = Rhs(f)
<1>1. n \in Nat \ {0} /\ \A i \in 1..n : S[i] \in All
  BY EmptySeq DEF Suites
<1>2. FlattenSeq(S) = flat[n]
  BY <1>1 DEF FlattenSeq
<1>3. <<>> \in All /\ \A x, y \in All : x \o y \in All
  OBVIOUS
<1>4. \A x \in All : <<>> \o x = x
  OBVIOUS
<1> HIDE DEF n, All
<1>5. step \in [All \X Nat -> All]
  BY <1>1, <1>3
<1>6. \A x \in All, i \in 1..n : step[<<x, i>>] = x \o S[i]
  <2> TAKE x \in All, i \in 1..n
  <2>1. <<x, i>> \in All \X Nat
    BY <1>1
  <2> QED
    BY <2>1
<1> HIDE DEF step
<1>7. PICK g : Primitive(g, All, <<>>, step, n)
  BY <1>1, <1>3, <1>5, Recursive
<1>8. \A i \in 1..n : i - 1 \in 0..n /\ (i # 1 => i - 1 \in 1..n /\ i \in 2..n)
  BY <1>1
<1>9. \A i \in 1..n : g[i] = g[i - 1] \o S[i]
  BY <1>6, <1>7, <1>8 DEF Primitive
<1>10. g[1] = S[1]
  <2>1. 1 \in 1..n /\ 1 - 1 = 0
    BY <1>1
  <2>2. g[1] = g[0] \o S[1]
    BY <1>9, <2>1
  <2> QED
    BY <1>1, <1>4, <1>7, <2>1, <2>2 DEF Primitive
<1> DEFINE f == [i \in 1..n |-> g[i]]
<1>11. f = Rhs(f)
  <2>1. \A i \in 1..n : g[i] = IF i = 1 THEN S[i] ELSE f[i - 1] \o S[i]
    BY <1>8, <1>9, <1>10
  <2> QED
    BY <2>1
<1>12. flat = Rhs(flat)
  <2> HIDE DEF f, Rhs
  <2> QED
    BY <1>11
<1>13. Flattened(S, flat)
  <2>1. flat[1] = S[1]
    <3>1. 1 \in 1..n
      BY <1>1
    <3> QED
      BY <1>12, <3>1
  <2>2. \A i \in 2..n : i \in 1..n /\ i # 1
    BY <1>1
  <2>3. \A i \in 2..n : flat[i] = flat[i - 1] \o S[i]
    BY <1>12, <2>2
  <2> QED
    BY <2>1, <2>3 DEF Flattened, n
<1> QED
  BY <1>2, <1>13 DEF n

LEMMA FitsTogether ==
  ASSUME NEW s \in Seq(Scenarios), NEW t \in Seq(Scenarios), NEW most \in Nat,
         Fits(s, most), Fits(t, most)
  PROVE  Fits(s \o t, most)
<1> DEFINE k == 2 * (1000 * most) + 1
<1>1. k \in Nat
  OBVIOUS
<1>2. Lengths(s \o t) = Lengths(s) \o Lengths(t)
  <2>1. /\ s \o t \in Seq(Scenarios) /\ Len(s \o t) = Len(s) + Len(t)
        /\ Len(s) \in Nat /\ Len(t) \in Nat
        /\ \A i \in 1..(Len(s) + Len(t)) : (s \o t)[i] = IF i <= Len(s) THEN s[i] ELSE t[i - Len(s)]
    BY ConcatProperties
  <2>2. /\ Lengths(s) \in Seq(Nat) /\ Lengths(t) \in Seq(Nat) /\ Lengths(s \o t) \in Seq(Nat)
    BY <2>1, LengthsTyped DEF Times
  <2>3. /\ Len(Lengths(s)) = Len(s) /\ Len(Lengths(t)) = Len(t)
        /\ Len(Lengths(s \o t)) = Len(s) + Len(t)
    BY <2>1 DEF Lengths
  <2>4. /\ Lengths(s) \o Lengths(t) \in Seq(Nat)
        /\ Len(Lengths(s) \o Lengths(t)) = Len(s) + Len(t)
        /\ \A i \in 1..(Len(s) + Len(t)) :
             (Lengths(s) \o Lengths(t))[i] =
               IF i <= Len(s) THEN Lengths(s)[i] ELSE Lengths(t)[i - Len(s)]
    <3> DEFINE a == Lengths(s) b == Lengths(t)
    <3>1. a \in Seq(Nat) /\ b \in Seq(Nat) /\ Len(a) = Len(s) /\ Len(b) = Len(t)
      BY <2>2, <2>3
    <3> HIDE DEF a, b
    <3>2. /\ a \o b \in Seq(Nat) /\ Len(a \o b) = Len(a) + Len(b)
          /\ \A i \in 1..(Len(a) + Len(b)) :
               (a \o b)[i] = IF i <= Len(a) THEN a[i] ELSE b[i - Len(a)]
      BY <3>1, ConcatProperties
    <3>3. /\ a \o b \in Seq(Nat) /\ Len(a \o b) = Len(s) + Len(t)
          /\ \A i \in 1..(Len(s) + Len(t)) :
               (a \o b)[i] = IF i <= Len(s) THEN a[i] ELSE b[i - Len(s)]
      BY <3>1, <3>2
    <3> QED
      BY <3>3 DEF a, b
  <2>5. ASSUME NEW i \in 1..(Len(s) + Len(t))
        PROVE  Lengths(s \o t)[i] = (Lengths(s) \o Lengths(t))[i]
    <3>1. Lengths(s \o t)[i] = (s \o t)[i].ms
      BY <2>1 DEF Lengths
    <3>2. CASE i <= Len(s)
      <4>1. i \in 1..Len(s)
        BY <2>1, <3>2
      <4>2. Lengths(s)[i] = s[i].ms
        BY <4>1 DEF Lengths
      <4> QED
        BY <2>1, <2>4, <3>1, <3>2, <4>2
    <3>3. CASE ~(i <= Len(s))
      <4>1. i - Len(s) \in 1..Len(t)
        BY <2>1, <3>3
      <4>2. Lengths(t)[i - Len(s)] = t[i - Len(s)].ms
        BY <4>1 DEF Lengths
      <4> QED
        BY <2>1, <2>4, <3>1, <3>3, <4>2
    <3> QED
      BY <3>2, <3>3
  <2> QED
    BY <2>2, <2>3, <2>4, <2>5, SeqEqual
<1>3. /\ M!Total(Lengths(s \o t)) = M!Total(Lengths(s)) + M!Total(Lengths(t))
      /\ M!Total(Lengths(s)) \in Nat /\ M!Total(Lengths(t)) \in Nat
  BY <1>2, LengthsTyped, TotalConcat, TotalTyped
<1>4. Len(s \o t) = Len(s) + Len(t) /\ Len(s) \in Nat /\ Len(t) \in Nat
  BY ConcatProperties
<1>5. k * Len(s \o t) = k * Len(s) + k * Len(t) /\ k * Len(s) \in Nat /\ k * Len(t) \in Nat
  <2> HIDE DEF k
  <2> QED
    BY <1>1, <1>4, ProductOfSum
<1>6. 2000 * M!Total(Lengths(s)) < k * Len(s) /\ 2000 * M!Total(Lengths(t)) < k * Len(t)
  BY DEF Fits
<1>7. 2000 * M!Total(Lengths(s \o t)) < k * Len(s \o t)
  <2> HIDE DEF k
  <2> QED
    BY <1>3, <1>5, <1>6
<1> QED
  BY <1>7 DEF Fits

\* Suites whose averages are accepted have an accepted average together.
LEMMA FlattenFits ==
  ASSUME NEW S \in Seq(Suites), S # <<>>, NEW most \in Nat,
         \A i \in 1..Len(S) : Fits(S[i], most)
  PROVE  FlattenSeq(S) \in Suites /\ Fits(FlattenSeq(S), most)
<1> DEFINE n == Len(S)
           All == Seq(Scenarios)
<1>1. n \in Nat \ {0} /\ \A i \in 1..n : S[i] \in Suites
  BY EmptySeq
<1>2. PICK flat : Flattened(S, flat) /\ FlattenSeq(S) = flat[n]
  BY FlattenIs
<1>3. \A x, y \in Suites : x \o y \in Suites
  BY ConcatEqualIffEmpty, ConcatProperties DEF Suites
<1>4. \A x, y \in Suites : Fits(x, most) /\ Fits(y, most) => Fits(x \o y, most)
  BY FitsTogether DEF Suites
<1> DEFINE T == {i \in Nat : i \in 1..n => flat[i] \in Suites /\ Fits(flat[i], most)}
<1>5. 0 \in T
  OBVIOUS
<1> HIDE DEF n
<1>6. ASSUME NEW i \in 0..(n - 1), i \in T PROVE i + 1 \in T
  <2>1. CASE i = 0
    <3>1. 1 \in 1..n /\ i + 1 = 1
      BY <1>1, <2>1
    <3>2. flat[1] = S[1] /\ Fits(S[1], most)
      BY <1>2, <3>1 DEF Flattened, n
    <3> QED
      BY <1>1, <3>1, <3>2
  <2>2. CASE i # 0
    <3>1. i \in 1..n /\ i + 1 \in 2..n /\ i + 1 \in 1..n /\ (i + 1) - 1 = i /\ i + 1 \in Nat
      BY <1>1, <2>2
    <3>2. flat[i + 1] = flat[i] \o S[i + 1] /\ Fits(S[i + 1], most)
      BY <1>2, <3>1 DEF Flattened, n
    <3>3. flat[i] \in Suites /\ Fits(flat[i], most)
      BY <1>6, <3>1
    <3>4. flat[i + 1] \in Suites /\ Fits(flat[i + 1], most)
      BY <1>1, <1>3, <1>4, <3>1, <3>2, <3>3
    <3> QED
      BY <3>1, <3>4
  <2> QED
    BY <2>1, <2>2
<1>7. \A i \in 0..n : i \in T
  <2> HIDE DEF T
  <2> QED
    BY <1>1, <1>5, <1>6, UpTo
<1>8. n \in 0..n /\ n \in 1..n
  BY <1>1
<1>9. n \in T
  BY <1>7, <1>8
<1> QED
  BY <1>2, <1>8, <1>9 DEF n

\* What fits one suite fits a more patient one.
LEMMA FitsMore ==
  ASSUME NEW s \in Seq(Scenarios), NEW a \in Nat, NEW b \in Nat, a <= b, Fits(s, a)
  PROVE  Fits(s, b)
<1> DEFINE n == Len(s) t == 2000 * M!Total(Lengths(s)) d == b - a
<1>1. n \in Nat /\ t \in Nat /\ d \in Nat
  BY LengthsTyped, TotalTyped
<1>2. t < (2 * (1000 * a) + 1) * n
  BY DEF Fits
<1>3. 2 * (1000 * b) + 1 = (2 * (1000 * a) + 1) + 2000 * d
  OBVIOUS
<1> HIDE DEF n, t, d
<1>4. \A p, q \in Nat : (p + q) * n = p * n + q * n /\ p * n \in Nat /\ q * n \in Nat
  BY <1>1
<1>5. t < (2 * (1000 * b) + 1) * n
  BY <1>1, <1>2, <1>3, <1>4
<1> QED
  BY <1>5 DEF Fits, n, t

\* The average that the i-th suite accepts is the greatest.
MostPatient(n, i) == \A j \in 1..n : Limits[j].average <= Limits[i].average

\* What the report of the suites says.
LEMMA ReportIs ==
  ASSUME NEW S \in Seq(Suites), S # <<>>, Len(S) <= Len(Limits)
  PROVE  LET report == M!Report(S, Limits)
             allErred == \A i \in 1..Len(S) : \A j \in 1..Len(S[i]) : Erred(S[i][j])
         IN  /\ \A i \in 1..Len(S) : report.suites[i] = M!Suite(S[i], Limits[i])
             /\ report.suitable =>
                  /\ \A i \in 1..Len(S) : report.suites[i].accepted
                  /\ \A i \in 1..Len(S) :
                       MostPatient(Len(S), i) => report.timing.average <= 1000 * Limits[i].average
             /\ report.quality = "inconclusive" <=> allErred
<1> DEFINE n == Len(S)
           report == M!Report(S, Limits)
           results == [i \in DOMAIN S |-> M!Suite(S[i], Limits[i])]
           accepted == {i \in DOMAIN results : results[i].accepted}
           inconclusive == {i \in DOMAIN results : results[i].status = "inconclusive"}
           risks == {results[i].risk : i \in DOMAIN results}
           quality == CASE accepted = DOMAIN results -> "suitable"
                        [] accepted # DOMAIN results /\ inconclusive = DOMAIN results -> "inconclusive"
                        [] OTHER -> IF accepted # {} THEN "borderline" ELSE "not-suitable"
           risk == CASE "high" \in risks -> "high"
                     [] "high" \notin risks /\ "warning" \in risks -> "warning"
                     [] risks = {"acceptable"} -> "acceptable"
           allErred(i) == \A j \in 1..Len(S[i]) : Erred(S[i][j])
<1>1. /\ report.quality = quality
      /\ report.suitable = (quality = "suitable" /\ risk = "acceptable")
      /\ report.timing = M!Timing(FlattenSeq(S))
      /\ report.suites = results
  BY SameFlattenSeq DEF M!Report
<1>2. n \in Nat \ {0} /\ DOMAIN S = 1..n /\ 1 \in 1..n /\ \A i \in 1..n : S[i] \in Suites
  BY EmptySeq
<1>3. DOMAIN results = 1..n /\ \A i \in 1..n : results[i] = M!Suite(S[i], Limits[i])
  BY <1>2
<1>12. \A i \in 1..n : Limits[i] \in LimitRecords /\ Limits[i].average \in Nat
  <2>1. Limits \in Seq(LimitRecords) /\ Len(Limits) \in Nat
    BY LimitsAssumption DEF LimitRecords
  <2>2. \A i \in 1..n : i \in 1..Len(Limits)
    BY <1>2, <2>1
  <2>3. \A i \in 1..n : Limits[i] \in LimitRecords
    BY <2>1, <2>2, ElementOfSeq
  <2> HIDE DEF n
  <2> QED
    BY <2>3 DEF LimitRecords
<1>4. \A i \in 1..n :
        /\ results[i].accepted \in BOOLEAN
        /\ results[i].accepted => ~allErred(i)
        /\ results[i].status = "inconclusive" <=> allErred(i)
        /\ results[i].risk \in {"warning", "high", "acceptable"}
        /\ results[i].risk = "acceptable" => Fits(S[i], Limits[i].average)
  <2> SUFFICES ASSUME NEW i \in 1..n
               PROVE  /\ results[i].accepted \in BOOLEAN
                      /\ results[i].accepted => ~allErred(i)
                      /\ results[i].status = "inconclusive" <=> allErred(i)
                      /\ results[i].risk \in {"warning", "high", "acceptable"}
                      /\ results[i].risk = "acceptable" => Fits(S[i], Limits[i].average)
    OBVIOUS
  <2> DEFINE s == S[i] limits == Limits[i] result == M!Suite(s, limits)
  <2>1. s \in Seq(Scenarios) /\ s # <<>> /\ results[i] = result
    BY <1>2, <1>3 DEF Suites
  <2>4. limits \in LimitRecords
    BY <1>12
  <2> HIDE DEF results, s, limits
  <2>2. /\ result.accepted \in BOOLEAN
        /\ result.accepted => \E j \in 1..Len(s) : Good(s[j])
        /\ result.status = IF \A j \in 1..Len(s) : Erred(s[j]) THEN "inconclusive"
                           ELSE IF result.accepted THEN "passed" ELSE "failed"
        /\ result.risk \in {"warning", "high", "acceptable"}
        /\ result.risk = "acceptable" => Fits(s, limits.average)
    BY <2>1, <2>4, SuiteIs
  <2>3. \A j \in 1..Len(s) : Good(s[j]) => ~Erred(s[j])
    BY DEF Good, Erred
  <2> HIDE DEF result
  <2> QED
    BY <2>1, <2>2, <2>3 DEF s, limits
<1> HIDE DEF report, results, n
<1>5. quality = "suitable" => \A i \in 1..n : results[i].accepted
  <2>1. quality = "suitable" => accepted = DOMAIN results
    BY <1>3
  <2> QED
    BY <1>3, <2>1
<1>6. risk = "acceptable" => \A i \in 1..n : results[i].risk = "acceptable"
  <2>1. risks # {} /\ risks \subseteq {"warning", "high", "acceptable"}
    BY <1>2, <1>3, <1>4
  <2>2. risk = "acceptable" => risks = {"acceptable"}
    <3> HIDE DEF risks
    <3> QED
      BY <2>1
  <2> HIDE DEF risk
  <2> QED
    BY <1>3, <2>2
<1>7. report.suitable =>
        \A i \in 1..n : MostPatient(n, i) =>
          M!Timing(FlattenSeq(S)).average <= 1000 * Limits[i].average
  <2> SUFFICES ASSUME report.suitable, NEW i \in 1..n, MostPatient(n, i)
               PROVE  M!Timing(FlattenSeq(S)).average <= 1000 * Limits[i].average
    OBVIOUS
  <2> DEFINE most == Limits[i].average
  <2>1. \A j \in 1..n : Fits(S[j], Limits[j].average) /\ Limits[j].average <= most
    BY <1>1, <1>4, <1>6 DEF MostPatient
  <2>2. most \in Nat /\ \A j \in 1..n : Limits[j].average \in Nat /\ S[j] \in Seq(Scenarios)
    BY <1>2, <1>12 DEF Suites
  <2> HIDE DEF most
  <2>3. \A j \in 1..n : Fits(S[j], most)
    BY <2>1, <2>2, FitsMore
  <2>4. FlattenSeq(S) \in Suites /\ Fits(FlattenSeq(S), most)
    BY <2>2, <2>3, FlattenFits DEF n
  <2>5. M!Timing(FlattenSeq(S)).average <= 1000 * most
    BY <2>2, <2>4, AverageIs DEF Suites
  <2> QED
    BY <2>5 DEF most
<1>8. quality = "inconclusive" <=> \A i \in 1..n : allErred(i)
  <2>1. inconclusive = DOMAIN results <=> \A i \in 1..n : allErred(i)
    BY <1>3, <1>4
  <2>2. (\A i \in 1..n : allErred(i)) => accepted # DOMAIN results
    BY <1>2, <1>3, <1>4
  <2> HIDE DEF accepted, inconclusive, allErred
  <2> QED
    BY <2>1, <2>2
<1>9. report.quality = "inconclusive" <=> \A i \in 1..n : \A j \in 1..Len(S[i]) : Erred(S[i][j])
  <2> HIDE DEF quality
  <2> QED
    BY <1>1, <1>8
<1> HIDE DEF quality, risk
<1>10. \A i \in 1..n : report.suites[i] = M!Suite(S[i], Limits[i])
  BY <1>1, <1>3
<1>11. report.suitable =>
         /\ \A i \in 1..n : report.suites[i].accepted
         /\ \A i \in 1..n : MostPatient(n, i) => report.timing.average <= 1000 * Limits[i].average
  <2> SUFFICES ASSUME report.suitable
               PROVE  /\ \A i \in 1..n : report.suites[i].accepted
                      /\ \A i \in 1..n :
                           MostPatient(n, i) => report.timing.average <= 1000 * Limits[i].average
    OBVIOUS
  <2>1. quality = "suitable"
    BY <1>1
  <2>2. \A i \in 1..n : report.suites[i].accepted
    BY <1>1, <1>5, <2>1
  <2>3. \A i \in 1..n : MostPatient(n, i) => report.timing.average <= 1000 * Limits[i].average
    BY <1>1, <1>7
  <2> QED
    BY <2>2, <2>3
<1> QED
  BY <1>9, <1>10, <1>11 DEF n, report

SuitesTyped == suites \in Seq(Suites) /\ Len(suites) <= Len(Limits)

LEMMA Evaluated == SuitesTyped => EvaluationsAreFair
<1> SUFFICES ASSUME SuitesTyped, suites # <<>> PROVE EvaluationsAreFair
  BY DEF EvaluationsAreFair
<1> DEFINE report == M!Report(suites, Limits)
           n == Len(suites)
           Used(s) == M!Fallbacks(s.answer, TRUE) = 0
<1>1. suites \in Seq(Suites) /\ DOMAIN suites = 1..n /\ n <= Len(Limits) /\ n \in Nat
  BY DEF SuitesTyped
<1>2. \A i \in 1..n : suites[i] \in Seq(Scenarios) /\ suites[i] # <<>>
  BY <1>1 DEF Suites
<1>3. /\ \A i \in 1..n : report.suites[i] = M!Suite(suites[i], Limits[i])
      /\ report.suitable =>
           /\ \A i \in 1..n : report.suites[i].accepted
           /\ \A i \in 1..n : MostPatient(n, i) => report.timing.average <= 1000 * Limits[i].average
      /\ report.quality = "inconclusive" <=>
           \A i \in 1..n : \A j \in 1..Len(suites[i]) : Erred(suites[i][j])
  BY <1>1, ReportIs
<1>4. \A i \in 1..n : \A s : s \in ToSet(suites[i]) <=> \E j \in 1..Len(suites[i]) : s = suites[i][j]
  BY <1>2 DEF ToSet
<1>5. \A i \in 1..n : \A s \in ToSet(suites[i]) :
        /\ M!ByModel(s) <=> Used(s) /\ M!Resolution(s.answer, TRUE) = "model"
        /\ Used(s) <=> Good(s)
  <2> SUFFICES ASSUME NEW i \in 1..n, NEW s \in ToSet(suites[i])
               PROVE  /\ M!ByModel(s) <=> Used(s) /\ M!Resolution(s.answer, TRUE) = "model"
                      /\ Used(s) <=> Good(s)
    OBVIOUS
  <2>1. PICK j \in 1..Len(suites[i]) : s = suites[i][j]
    BY <1>4
  <2>2. suites[i] \in Seq(Scenarios)
    BY <1>2
  <2>3. s \in Scenarios
    BY <2>1, <2>2
  <2> QED
    BY <2>3, AnswersAre
<1>6. \A i \in 1..n :
        LET result == report.suites[i]
        IN  /\ result.accepted \in BOOLEAN
            /\ result.accepted => \E s \in ToSet(suites[i]) : Used(s) /\ s.passed
            /\ result.status = IF \A s \in ToSet(suites[i]) : Erred(s) THEN "inconclusive"
                               ELSE IF result.accepted THEN "passed" ELSE "failed"
            /\ (\A s \in ToSet(suites[i]) : Erred(s)) => result.risk = "warning"
  <2> SUFFICES ASSUME NEW i \in 1..n
               PROVE  LET result == report.suites[i]
                      IN  /\ result.accepted \in BOOLEAN
                          /\ result.accepted => \E s \in ToSet(suites[i]) : Used(s) /\ s.passed
                          /\ result.status = IF \A s \in ToSet(suites[i]) : Erred(s) THEN "inconclusive"
                                             ELSE IF result.accepted THEN "passed" ELSE "failed"
                          /\ (\A s \in ToSet(suites[i]) : Erred(s)) => result.risk = "warning"
    OBVIOUS
  <2> DEFINE result == report.suites[i] suite == suites[i]
             allErred == \A j \in 1..Len(suite) : Erred(suite[j])
  <2>1. /\ result.accepted \in BOOLEAN
        /\ result.accepted => \E j \in 1..Len(suite) : Good(suite[j]) /\ suite[j].passed
        /\ result.status = IF allErred THEN "inconclusive"
                           ELSE IF result.accepted THEN "passed" ELSE "failed"
        /\ allErred => result.risk = "warning"
    <3>1. Limits[i] \in LimitRecords
      <4>1. Limits \in Seq(LimitRecords) /\ i \in 1..Len(Limits)
        BY <1>1, LimitsAssumption DEF LimitRecords
      <4> QED
        BY <4>1, ElementOfSeq
    <3>2. suites[i] \in Seq(Scenarios) /\ suites[i] # <<>> /\ result = M!Suite(suites[i], Limits[i])
      BY <1>2, <1>3
    <3> HIDE DEF report
    <3> QED
      BY <3>1, <3>2, SuiteIs
  <2>2. allErred <=> \A s \in ToSet(suite) : Erred(s)
    BY <1>4
  <2>3. (\E j \in 1..Len(suite) : Good(suite[j]) /\ suite[j].passed)
        => \E s \in ToSet(suite) : Used(s) /\ s.passed
    BY <1>4, <1>5
  <2> HIDE DEF result, suite, allErred, Used
  <2> QED
    BY <2>1, <2>2, <2>3 DEF result, suite
<1>7. report.quality = "inconclusive" <=> \A i \in 1..n : \A s \in ToSet(suites[i]) : Erred(s)
  <2>1. \A i \in 1..n : (\A s \in ToSet(suites[i]) : Erred(s))
                         <=> \A j \in 1..Len(suites[i]) : Erred(suites[i][j])
    BY <1>4
  <2> HIDE DEF n, report
  <2> QED
    BY <1>3, <2>1
<1> HIDE DEF report, Used, n
<1>8. \A i \in 1..n :
        LET suite == suites[i] result == report.suites[i]
        IN  /\ \A s \in ToSet(suite) :
                 M!ByModel(s) <=> Used(s) /\ M!Resolution(s.answer, TRUE) = "model"
            /\ result.status = "inconclusive" <=> \A s \in ToSet(suite) : Erred(s)
            /\ result.status = "passed" => \E s \in ToSet(suite) : Used(s) /\ s.passed
            /\ result.status = "inconclusive" => result.risk # "acceptable"
  BY <1>5, <1>6
<1>9. report.suitable =>
        /\ \A i \in 1..n : \E s \in ToSet(suites[i]) : Used(s) /\ s.passed
        /\ \A i \in 1..n :
             (\A j \in 1..n : Limits[j].average <= Limits[i].average) =>
               report.timing.average <= 1000 * Limits[i].average
  BY <1>3, <1>6 DEF MostPatient
<1>10. report.suitable =>
         /\ \A i \in DOMAIN suites : \E s \in ToSet(suites[i]) : Used(s) /\ s.passed
         /\ \A i \in DOMAIN suites :
              (\A j \in DOMAIN suites : Limits[j].average <= Limits[i].average) =>
                report.timing.average <= 1000 * Limits[i].average
  BY <1>1, <1>9
<1> QED
  BY <1>1, <1>7, <1>8, <1>10 DEF EvaluationsAreFair, report, Used, Erred

\* A scenario more.
LEMMA SuitesTypedKeeps ==
  ASSUME SuitesTyped, NEW scenario \in Scenarios, NEW opens \in BOOLEAN, AddScenario(scenario, opens)
  PROVE  SuitesTyped'
<1>1. <<scenario>> \in Suites
  BY DEF Suites
<1>2. Len(Limits) \in Nat
  BY LimitsAssumption
<1>3. CASE opens
  BY <1>1, <1>2, <1>3 DEF SuitesTyped, AddScenario
<1>4. CASE ~opens
  <2> DEFINE n == Len(suites) last == Append(suites[n], scenario)
  <2>1. suites \in Seq(Suites) /\ n \in 1..Len(suites)
    BY <1>4, EmptySeq DEF SuitesTyped, AddScenario
  <2>2. suites[n] \in Seq(Scenarios)
    BY <2>1 DEF Suites
  <2>3. last \in Suites
    BY <2>2, AppendProperties DEF Suites
  <2>4. suites' = [suites EXCEPT ![n] = last]
    BY <1>4 DEF AddScenario
  <2> HIDE DEF n, last
  <2> QED
    BY <2>1, <2>3, <2>4, ExceptSeq DEF SuitesTyped
<1> QED
  BY <1>3, <1>4

-----------------------------------------------------------------------------
(* Starts and the calls they stand for.  The starts of a tool that are     *)
(* left are as many as its calls under way; each stands for a call that    *)
(* started no later, which need not be the call it was logged for.         *)

CallRecords == {r \in [tool : TimedTools, start : Nat, end : Nat] : r.start <= r.end}
CallLog == Seq(CallRecords)

\* place says which start stands for a call.
Matching(calls, pending, starts, place) ==
  /\ place \in [pending -> DOMAIN starts]
  /\ \A c, d \in pending : place[c] = place[d] => c = d
  /\ \A i \in DOMAIN starts : \E c \in pending : place[c] = i
  /\ \A c \in pending : calls[c].start <= starts[place[c]]

Ordered(starts, now) ==
  /\ \A i \in DOMAIN starts : starts[i] <= now
  /\ \A i, j \in DOMAIN starts : i <= j => starts[i] <= starts[j]

\* The calls of a tool, those of them that are under way, and the starts left.
Matched(calls, mine, pending, starts, place, ts) ==
  /\ calls \in CallLog /\ mine \in SUBSET DOMAIN calls /\ pending \in SUBSET mine
  /\ starts \in Times /\ ts \in Nat /\ Ordered(starts, ts) /\ Matching(calls, pending, starts, place)

Including(S, x) == S \cup {x}
Excluding(S, x) == S \ {x}

\* What the summary has counted of each call: what it took, or, while it is
\* under way, what the start that stands for it is late.
Weights(calls, mine, pending, starts, place) ==
  [c \in DOMAIN calls |-> IF c \in pending THEN starts[place[c]] - calls[c].start
                          ELSE IF c \in mine THEN calls[c].end - calls[c].start ELSE 0]

\* The calls of a tool, and those of them that are under way.
Shares(calls, mine, pending) == mine \in SUBSET DOMAIN calls /\ pending \in SUBSET mine

\* The calls once one of them has settled.
Ending(calls, c, ts) == [calls EXCEPT ![c].end = ts]

LEMMA CallLogFacts ==
  ASSUME NEW calls \in CallLog
  PROVE  /\ Len(calls) \in Nat /\ DOMAIN calls = 1..Len(calls)
         /\ \A c \in DOMAIN calls : /\ calls[c] \in CallRecords
                                    /\ calls[c].tool \in TimedTools
                                    /\ calls[c].start \in Nat /\ calls[c].end \in Nat
                                    /\ calls[c].start <= calls[c].end
<1>1. \A c \in DOMAIN calls : calls[c] \in CallRecords
  BY DEF CallLog
<1>2. Len(calls) \in Nat /\ DOMAIN calls = 1..Len(calls)
  BY DEF CallLog
<1> QED
  BY <1>1, <1>2 DEF CallRecords

LEMMA TimesFacts ==
  ASSUME NEW times \in Times
  PROVE  /\ Len(times) \in Nat /\ DOMAIN times = 1..Len(times)
         /\ \A i \in DOMAIN times : times[i] \in Nat
  BY DEF Times

LEMMA IsTimes ==
  ASSUME NEW n \in Nat, NEW f, f \in [1..n -> Nat]
  PROVE  f \in Times /\ Len(f) = n
  BY IsASeq DEF Times

LEMMA WeightsTyped ==
  ASSUME NEW calls \in CallLog, NEW mine, NEW pending \in SUBSET DOMAIN calls,
         NEW starts \in Times, NEW place, Matching(calls, pending, starts, place)
  PROVE  Weights(calls, mine, pending, starts, place) \in Times
<1> DEFINE W == Weights(calls, mine, pending, starts, place)
<1>1. ASSUME NEW c \in DOMAIN calls PROVE W[c] \in Nat
  <2>1. W[c] = IF c \in pending THEN starts[place[c]] - calls[c].start
               ELSE IF c \in mine THEN calls[c].end - calls[c].start ELSE 0
    BY DEF Weights
  <2>2. calls[c].start \in Nat /\ calls[c].end \in Nat /\ calls[c].start <= calls[c].end
    BY CallLogFacts
  <2>3. c \in pending => starts[place[c]] \in Nat /\ calls[c].start <= starts[place[c]]
    BY TimesFacts DEF Matching
  <2> QED
    BY <2>1, <2>2, <2>3
<1>2. W \in [1..Len(calls) -> Nat] /\ Len(calls) \in Nat
  <2>1. DOMAIN calls = 1..Len(calls) /\ Len(calls) \in Nat
    BY CallLogFacts
  <2>2. W = [c \in 1..Len(calls) |-> W[c]]
    BY <2>1 DEF Weights
  <2> HIDE DEF W
  <2> QED
    BY <1>1, <2>1, <2>2
<1> QED
  BY <1>2, IsTimes

\* A call starts.
LEMMA MatchStart ==
  ASSUME NEW calls, NEW mine, NEW pending, NEW starts, NEW place, NEW ts,
         Matched(calls, mine, pending, starts, place, ts),
         NEW record \in CallRecords, record.start = ts, record.end = ts
  PROVE  LET n == Len(calls) + 1
         IN  /\ Ordered(Append(starts, ts), ts)
             /\ \E place1 :
                  /\ Matching(Append(calls, record), Including(pending, n), Append(starts, ts), place1)
                  /\ M!Total(Weights(Append(calls, record), Including(mine, n), Including(pending, n), Append(starts, ts), place1))
                       = M!Total(Weights(calls, mine, pending, starts, place))
<1> USE DEF Matched, Including, Excluding
<1> DEFINE n == Len(calls) + 1
           m == Len(starts) + 1
           calls1 == Append(calls, record)
           pending1 == Including(pending, n)
           starts1 == Append(starts, ts)
           place1 == [c \in pending1 |-> IF c = n THEN m ELSE place[c]]
           W == Weights(calls, mine, pending, starts, place)
           W1 == Weights(calls1, Including(mine, n), pending1, starts1, place1)
<1>1. /\ n \in Nat /\ DOMAIN calls = 1..(n - 1) /\ n \notin DOMAIN calls
      /\ m \in Nat /\ DOMAIN starts = 1..(m - 1) /\ m \notin DOMAIN starts
  BY CallLogFacts, TimesFacts
<1>2. /\ DOMAIN calls1 = DOMAIN calls \cup {n} /\ calls1[n] = record
      /\ \A c \in DOMAIN calls : calls1[c] = calls[c]
  BY DEF CallLog
<1>3. /\ DOMAIN starts1 = DOMAIN starts \cup {m} /\ starts1[m] = ts
      /\ \A i \in DOMAIN starts : starts1[i] = starts[i]
  BY DEF Times
<1>4. /\ place \in [pending -> DOMAIN starts] /\ \A c \in pending : c # n
      /\ place1[n] = m /\ \A c \in pending : place1[c] = place[c]
  <2>1. place \in [pending -> DOMAIN starts]
    BY DEF Matching
  <2>2. \A c \in pending : c # n
    BY <1>1
  <2> QED
    BY <2>1, <2>2
<1>5. place1 \in [pending1 -> DOMAIN starts1]
  BY <1>3, <1>4
<1> HIDE DEF calls1, starts1, place1
<1>6. Matching(calls1, pending1, starts1, place1)
  <2>1. \A c, d \in pending1 : place1[c] = place1[d] => c = d
    BY <1>1, <1>4 DEF Matching
  <2>2. \A i \in DOMAIN starts1 : \E c \in pending1 : place1[c] = i
    BY <1>3, <1>4 DEF Matching
  <2>3. \A c \in pending1 : calls1[c].start <= starts1[place1[c]]
    <3>1. calls1[n].start <= starts1[place1[n]]
      BY <1>2, <1>3, <1>4
    <3>2. \A c \in pending : calls1[c].start <= starts1[place1[c]]
      BY <1>2, <1>3, <1>4 DEF Matching
    <3> QED
      BY <3>1, <3>2
  <2> HIDE DEF pending1
  <2> QED
    BY <1>5, <2>1, <2>2, <2>3 DEF Matching
<1>7. Ordered(starts1, ts)
  <2>1. \A i \in DOMAIN starts : starts1[i] \in Nat /\ starts1[i] <= ts
    BY <1>3, TimesFacts DEF Ordered
  <2>2. \A i, j \in DOMAIN starts : i <= j => starts1[i] <= starts1[j]
    BY <1>3 DEF Ordered
  <2>3. \A j \in DOMAIN starts : ~(m <= j)
    BY <1>1
  <2> QED
    BY <1>3, <2>1, <2>2, <2>3 DEF Ordered
<1>8. W1 = Append(W, 0)
  <2>1. W \in Times
    BY WeightsTyped
  <2>2. DOMAIN W = DOMAIN calls /\ DOMAIN W1 = DOMAIN calls1
    BY DEF Weights
  <2>3. DOMAIN W = 1..Len(W) /\ Len(W) \in Nat
    BY <2>1, TimesFacts
  <2>4. Len(W) = n - 1
    BY <1>1, <2>2, <2>3
  <2>5. /\ DOMAIN Append(W, 0) = 1..n /\ Append(W, 0)[n] = 0
        /\ \A c \in DOMAIN W : Append(W, 0)[c] = W[c]
    BY <1>1, <2>1, <2>4 DEF Times
  <2>6. W1 = [c \in DOMAIN W1 |-> W1[c]] /\ Append(W, 0) = [c \in DOMAIN Append(W, 0) |-> Append(W, 0)[c]]
    BY DEF Weights
  <2>7. DOMAIN W1 = 1..n
    <3>1. \A k \in Nat : 1..(k + 1) = (1..k) \cup {k + 1}
      OBVIOUS
    <3>2. Len(calls) \in Nat /\ DOMAIN calls = 1..Len(calls)
      BY CallLogFacts
    <3> HIDE DEF W1
    <3> QED
      BY <1>2, <2>2, <3>1, <3>2
  <2>8. W1[n] = 0
    <3>1. W1[n] = starts1[place1[n]] - calls1[n].start
      BY <1>2 DEF Weights
    <3> QED
      BY <1>2, <1>3, <1>4, <3>1
  <2>9. \A c \in DOMAIN calls : W1[c] = W[c]
    <3> TAKE c \in DOMAIN calls
    <3>1. c # n /\ (c \in pending1 <=> c \in pending) /\ c \in DOMAIN calls1
      BY <1>1, <1>2
    <3>2. W1[c] = IF c \in pending THEN starts1[place1[c]] - calls1[c].start
                  ELSE IF c \in mine THEN calls1[c].end - calls1[c].start ELSE 0
      BY <3>1 DEF Weights
    <3>3. W[c] = IF c \in pending THEN starts[place[c]] - calls[c].start
                 ELSE IF c \in mine THEN calls[c].end - calls[c].start ELSE 0
      BY DEF Weights
    <3>4. c \in pending => starts1[place1[c]] = starts[place[c]]
      BY <1>3, <1>4
    <3> QED
      BY <1>2, <3>2, <3>3, <3>4
  <2> HIDE DEF W, W1
  <2>10. \A c \in 1..n : W1[c] = Append(W, 0)[c]
    BY <1>1, <2>2, <2>5, <2>8, <2>9
  <2> QED
    BY <2>5, <2>6, <2>7, <2>10
<1>9. M!Total(W1) = M!Total(W)
  <2>1. pending \in SUBSET DOMAIN calls
    OBVIOUS
  <2>2. W \in Times
    BY <2>1, WeightsTyped
  <2> HIDE DEF W, W1
  <2>3. 0 \in Nat /\ M!Total(W) \in Nat /\ M!Total(Append(W, 0)) = M!Total(W) + 0
    BY <2>2, TotalTyped, TotalAppend
  <2>4. M!Total(Append(W, 0)) = M!Total(W)
    BY <2>3
  <2> QED
    BY <1>8, <2>4
<1> QED
  BY <1>6, <1>7, <1>9 DEF calls1, starts1

\* A call settles, and the first start left is used up.
LEMMA MatchSettle ==
  ASSUME NEW calls, NEW mine, NEW pending, NEW starts, NEW place, NEW ts,
         Matched(calls, mine, pending, starts, place, ts),
         NEW c \in pending, calls[c].start <= ts
  PROVE  LET calls1 == Ending(calls, c, ts)
             pending1 == Excluding(pending, c)
             W == Weights(calls, mine, pending, starts, place)
         IN  /\ starts # <<>> /\ Tail(starts) \in Times /\ Head(starts) \in Nat
             /\ Ordered(Tail(starts), ts)
             /\ \E d \in pending : calls[d].start <= Head(starts)
             /\ \E place1 :
                  /\ Matching(calls1, pending1, Tail(starts), place1)
                  /\ M!Total(Weights(calls1, mine, pending1, Tail(starts), place1)) + Head(starts)
                       = M!Total(W) + ts
<1> USE DEF Matched, Including, Excluding
<1> DEFINE calls1 == Ending(calls, c, ts)
           pending1 == Excluding(pending, c)
           starts1 == Tail(starts)
           W == Weights(calls, mine, pending, starts, place)
           first == Head(starts)
<1>1. /\ place \in [pending -> DOMAIN starts]
      /\ \A a, b \in pending : place[a] = place[b] => a = b
      /\ \A i \in DOMAIN starts : \E b \in pending : place[b] = i
      /\ \A b \in pending : calls[b].start <= starts[place[b]]
  BY DEF Matching
<1> DEFINE m == Len(starts)
<1>2. m \in Nat /\ DOMAIN starts = 1..m /\ \A i \in 1..m : starts[i] \in Nat
  BY TimesFacts
<1>3. m # 0 /\ 1 \in 1..m /\ starts # <<>>
  <2>1. place[c] \in 1..m
    BY <1>1, <1>2
  <2> QED
    BY <1>2, <2>1
<1>4. /\ starts1 \in Times /\ first = starts[1] /\ first \in Nat
      /\ DOMAIN starts1 = 1..(m - 1) /\ \A i \in 1..(m - 1) : starts1[i] = starts[i + 1]
  <2>1. starts \in Seq(Nat)
    BY DEF Times
  <2>2. starts1 \in Seq(Nat) /\ Len(starts1) = m - 1 /\ \A i \in 1..(m - 1) : starts1[i] = starts[i + 1]
    BY <1>3, <2>1, HeadTailProperties
  <2>3. DOMAIN starts1 = 1..Len(starts1)
    BY <2>2
  <2>4. first = starts[1]
    BY <1>3, <2>1
  <2> QED
    BY <1>2, <1>3, <2>2, <2>3, <2>4 DEF Times
<1> HIDE DEF starts1, first, m
<1>5. PICK d \in pending : place[d] = 1
  BY <1>1, <1>2, <1>3
<1>6. \A b \in pending : b # d => place[b] \in 2..m
  <2> TAKE b \in pending
  <2> HAVE b # d
  <2>1. place[b] \in 1..m /\ place[b] # 1
    BY <1>1, <1>2, <1>5
  <2> QED
    BY <1>2, <2>1
<1> DEFINE place1 == [b \in pending1 |-> IF b = d THEN place[c] - 1 ELSE place[b] - 1]
\* Where a call's start was before: the one of d is that of c now.
           was == [b \in pending1 |-> IF b = d THEN place[c] ELSE place[b]]
<1>7. \A b \in pending1 : was[b] \in 2..m /\ place1[b] = was[b] - 1 /\ place1[b] \in 1..(m - 1)
  <2> TAKE b \in pending1
  <2>1. was[b] \in 2..m /\ place1[b] = was[b] - 1
    BY <1>6
  <2> QED
    BY <1>2, <2>1
<1>8. \A b \in pending1 : starts1[place1[b]] = starts[was[b]]
  <2> TAKE b \in pending1
  <2>1. (was[b] - 1) + 1 = was[b]
    BY <1>2, <1>7
  <2> QED
    BY <1>4, <1>7, <2>1
<1>9. /\ DOMAIN calls1 = DOMAIN calls
      /\ \A b \in DOMAIN calls : /\ calls1[b].start = calls[b].start
                                 /\ calls1[b].end = IF b = c THEN ts ELSE calls[b].end
  BY DEF Ending
<1>10. Matching(calls1, pending1, starts1, place1)
  <2>1. place1 \in [pending1 -> DOMAIN starts1]
    BY <1>4, <1>7
  <2>2. ASSUME NEW a \in pending1, NEW b \in pending1, place1[a] = place1[b] PROVE a = b
    <3>1. was[a] = was[b]
      <4>1. was[a] \in 2..m /\ was[b] \in 2..m /\ was[a] - 1 = was[b] - 1
        BY <1>7, <2>2
      <4> HIDE DEF was
      <4> QED
        BY <1>2, <4>1
    <3> QED
      BY <1>1, <3>1
  <2>3. ASSUME NEW i \in DOMAIN starts1 PROVE \E b \in pending1 : place1[b] = i
    <3>1. i + 1 \in DOMAIN starts /\ i + 1 # 1 /\ (i + 1) - 1 = i
      <4>1. i \in 1..(m - 1)
        BY <1>4
      <4>2. i + 1 \in 1..m /\ i + 1 # 1 /\ (i + 1) - 1 = i
        BY <1>2, <4>1
      <4> QED
        BY <1>2, <4>2
    <3>2. PICK b \in pending : place[b] = i + 1
      BY <1>1, <3>1
    <3>3. CASE b = c
      <4>1. d # c
        BY <1>5, <3>1, <3>2, <3>3
      <4>2. d \in pending1 /\ place1[d] = place[c] - 1
        BY <4>1
      <4> QED
        BY <3>1, <3>2, <3>3, <4>2
    <3>4. CASE b # c
      <4>1. b # d /\ b \in pending1
        BY <1>5, <3>1, <3>2, <3>4
      <4>2. place1[b] = place[b] - 1
        BY <4>1
      <4> QED
        BY <3>1, <3>2, <4>1, <4>2
    <3> QED
      BY <3>3, <3>4
  <2>4. ASSUME NEW b \in pending1 PROVE calls1[b].start <= starts1[place1[b]]
    <3>1. b \in DOMAIN calls /\ calls1[b].start = calls[b].start /\ calls[b].start \in Nat
      BY <1>9, CallLogFacts
    <3>2. CASE b = d
      <4>1. calls[d].start <= starts[1]
        BY <1>1, <1>5
      <4>2. place[c] \in 1..m /\ 1 <= place[c]
        BY <1>1, <1>2
      <4>3. starts[1] <= starts[place[c]]
        BY <1>2, <1>3, <4>2 DEF Ordered
      <4>4. starts[1] \in Nat /\ starts[place[c]] \in Nat
        BY <1>2, <1>3, <4>2
      <4>5. starts1[place1[b]] = starts[place[c]]
        BY <1>8, <3>2
      <4> QED
        BY <3>1, <3>2, <4>1, <4>3, <4>4, <4>5
    <3>3. CASE b # d
      <4>1. starts1[place1[b]] = starts[place[b]]
        BY <1>8, <3>3
      <4> QED
        BY <1>1, <3>1, <4>1
    <3> QED
      BY <3>2, <3>3
  <2> HIDE DEF place1, pending1, calls1
  <2> QED
    BY <2>1, <2>2, <2>3, <2>4 DEF Matching
<1>11. Ordered(starts1, ts)
  <2>1. \A i \in 1..(m - 1) : i + 1 \in 1..m /\ starts1[i] = starts[i + 1] /\ starts[i + 1] \in Nat
    BY <1>2, <1>4
  <2>2. \A i \in 1..(m - 1) : starts1[i] <= ts
    <3> TAKE i \in 1..(m - 1)
    <3>1. starts[i + 1] <= ts
      BY <1>2, <2>1 DEF Ordered
    <3> QED
      BY <2>1, <3>1
  <2>3. \A i, j \in 1..(m - 1) : i <= j => i + 1 <= j + 1
    BY <1>2
  <2>4. \A i, j \in 1..(m - 1) : i <= j => starts1[i] <= starts1[j]
    BY <1>2, <2>1, <2>3 DEF Ordered
  <2>5. DOMAIN starts1 = 1..(m - 1)
    BY <1>4
  <2> QED
    BY <2>2, <2>4, <2>5 DEF Ordered
<1>12. W \in Times /\ DOMAIN W = DOMAIN calls
  <2>1. pending \in SUBSET DOMAIN calls
    OBVIOUS
  <2>2. DOMAIN W = DOMAIN calls
    BY DEF Weights
  <2> QED
    BY <2>1, <2>2, WeightsTyped
<1> DEFINE W1 == Weights(calls1, mine, pending1, starts1, place1)
           own == ts - calls[c].start
           late == starts[place[c]] - calls[d].start
<1>13. /\ own \in Nat /\ late \in Nat
       /\ c \in DOMAIN W /\ d \in DOMAIN W
       /\ W[c] = starts[place[c]] - calls[c].start
       /\ W[d] = first - calls[d].start
       /\ calls[c].start \in Nat /\ calls[d].start \in Nat /\ starts[place[c]] \in Nat
       /\ W[c] \in Nat /\ W[d] \in Nat
  <2>1. calls[c].start \in Nat /\ calls[d].start \in Nat /\ c \in DOMAIN calls /\ d \in DOMAIN calls
    BY CallLogFacts
  <2>2. place[c] \in 1..m /\ 1 <= place[c]
    BY <1>1, <1>2
  <2>3. starts[1] <= starts[place[c]] /\ starts[1] \in Nat /\ starts[place[c]] \in Nat
    BY <1>2, <1>3, <2>2 DEF Ordered
  <2>4. calls[d].start <= starts[1]
    BY <1>1, <1>5
  <2>5. own \in Nat /\ late \in Nat
    BY <2>1, <2>3, <2>4
  <2>6. W[c] = starts[place[c]] - calls[c].start /\ W[d] = starts[place[d]] - calls[d].start
    BY <2>1 DEF Weights
  <2>7. W[c] \in Nat /\ W[d] \in Nat
    BY <1>12, <2>1, TimesFacts
  <2> QED
    BY <1>4, <1>5, <1>12, <2>1, <2>3, <2>5, <2>6, <2>7
<1>14. \A b \in DOMAIN calls :
         W1[b] = IF b = c THEN own ELSE IF b = d THEN late ELSE W[b]
  <2> TAKE b \in DOMAIN calls
  <2>1. W1[b] = IF b \in pending1 THEN starts1[place1[b]] - calls1[b].start
                ELSE IF b \in mine THEN calls1[b].end - calls1[b].start ELSE 0
    BY <1>9 DEF Weights
  <2>2. W[b] = IF b \in pending THEN starts[place[b]] - calls[b].start
               ELSE IF b \in mine THEN calls[b].end - calls[b].start ELSE 0
    BY DEF Weights
  <2>3. b \in pending1 => starts1[place1[b]] = starts[IF b = d THEN place[c] ELSE place[b]]
    BY <1>8
  <2>4. calls1[b].start = calls[b].start /\ calls1[b].end = IF b = c THEN ts ELSE calls[b].end
    BY <1>9
  <2> HIDE DEF W1, W, calls1, place1
  <2>5. CASE b = c
    BY <2>1, <2>4, <2>5
  <2>6. CASE b # c /\ b = d
    BY <2>1, <2>3, <2>4, <2>6
  <2>7. CASE b # c /\ b # d
    BY <2>1, <2>2, <2>3, <2>4, <2>7
  <2> QED
    BY <2>5, <2>6, <2>7
<1>15. W1 = [[W EXCEPT ![d] = late] EXCEPT ![c] = own]
  <2>1. W1 = [b \in DOMAIN calls |-> W1[b]] /\ W = [b \in DOMAIN calls |-> W[b]]
    BY <1>9 DEF Weights
  <2> HIDE DEF W1, W, own, late
  <2> QED
    BY <1>14, <2>1
<1>16. M!Total(W1) + first = M!Total(W) + ts
  <2> DEFINE V == [W EXCEPT ![d] = late]
  <2> HIDE DEF W1, W, own, late
  <2>1. V \in Times /\ M!Total(V) + W[d] = M!Total(W) + late
    <3>1. /\ [W EXCEPT ![d] = late] \in Times
          /\ M!Total([W EXCEPT ![d] = late]) + W[d] = M!Total(W) + late
      BY <1>12, <1>13, TotalExcept
    <3> QED
      BY <3>1
  <2>2. DOMAIN V = DOMAIN W /\ V[c] = IF c = d THEN late ELSE W[c]
    BY <1>13
  <2> HIDE DEF V
  <2>3. W1 = [V EXCEPT ![c] = own]
    BY <1>15 DEF V
  <2>4. M!Total(W1) + V[c] = M!Total(V) + own
    <3>1. c \in DOMAIN V
      BY <1>13, <2>2
    <3>2. M!Total([V EXCEPT ![c] = own]) + V[c] = M!Total(V) + own
      BY <1>13, <2>1, <3>1, TotalExcept
    <3> QED
      BY <2>3, <3>2
  <2>5. W1 \in Times
    <3>1. c \in DOMAIN V
      BY <1>13, <2>2
    <3>2. [V EXCEPT ![c] = own] \in Times
      BY <1>13, <2>1, <3>1, TotalExcept
    <3> QED
      BY <2>3, <3>2
  <2>6. M!Total(W) \in Nat /\ M!Total(V) \in Nat /\ M!Total(W1) \in Nat
    BY <1>12, <2>1, <2>5, TotalTyped
  <2> DEFINE then == starts[place[c]] mineAt == calls[c].start hisAt == calls[d].start
             wc == W[c] wd == W[d] total == M!Total(W) between == M!Total(V) total1 == M!Total(W1)
             vc == V[c]
  <2>7. /\ then \in Nat /\ mineAt \in Nat /\ hisAt \in Nat /\ first \in Nat
        /\ own = ts - mineAt /\ late = then - hisAt
        /\ wc = then - mineAt /\ wd = first - hisAt
    BY <1>4, <1>13 DEF own, late
  <2>8. /\ total \in Nat /\ between \in Nat /\ total1 \in Nat /\ own \in Nat /\ late \in Nat
        /\ between + wd = total + late
        /\ total1 + vc = between + own
    BY <1>13, <2>1, <2>4, <2>6
  <2>9. /\ c = d => mineAt = hisAt /\ vc = late
        /\ c # d => vc = wc
    BY <2>2
  <2> HIDE DEF then, mineAt, hisAt, wc, wd, total, between, total1, vc
  <2>10. ASSUME c = d PROVE total1 + first = total + ts
    BY <2>7, <2>8, <2>9, <2>10
  <2>11. ASSUME c # d PROVE total1 + first = total + ts
    BY <2>7, <2>8, <2>9, <2>11
  <2>12. total1 + first = total + ts
    BY <2>10, <2>11
  <2> QED
    BY <2>12 DEF total1, total
<1>17. \E b \in pending : calls[b].start <= first
  BY <1>1, <1>4, <1>5
<1> QED
  BY <1>3, <1>4, <1>10, <1>11, <1>16, <1>17 DEF starts1, first

\* A call of another tool starts or settles.
LEMMA MatchStartElsewhere ==
  ASSUME NEW calls \in CallLog, NEW mine, NEW pending, Shares(calls, mine, pending),
         NEW starts \in Times, NEW place, Matching(calls, pending, starts, place),
         NEW record \in CallRecords
  PROVE  /\ Matching(Append(calls, record), pending, starts, place)
         /\ M!Total(Weights(Append(calls, record), mine, pending, starts, place))
              = M!Total(Weights(calls, mine, pending, starts, place))
<1> USE DEF Shares
<1> DEFINE W == Weights(calls, mine, pending, starts, place)
           n == Len(calls) + 1
           calls1 == Append(calls, record)
           W1 == Weights(calls1, mine, pending, starts, place)
<1>1. n \in Nat /\ DOMAIN calls = 1..(n - 1) /\ n \notin DOMAIN calls
  BY CallLogFacts
<1>2. /\ DOMAIN calls1 = 1..n /\ \A c \in DOMAIN calls : calls1[c] = calls[c]
  BY DEF CallLog
<1> HIDE DEF calls1
<1>3. Matching(calls1, pending, starts, place)
  BY <1>2 DEF Matching
<1>4. W \in Times /\ DOMAIN W = DOMAIN calls
  <2>1. pending \in SUBSET DOMAIN calls
    OBVIOUS
  <2>2. DOMAIN W = DOMAIN calls
    BY DEF Weights
  <2> QED
    BY <2>1, <2>2, WeightsTyped
<1>5. Len(W) = n - 1
  <2>1. DOMAIN W = 1..Len(W) /\ Len(W) \in Nat
    BY <1>4, TimesFacts
  <2>2. n - 1 \in Nat
    BY <1>1, CallLogFacts
  <2>3. \A i, j \in Nat : 1..i = 1..j => i = j
    OBVIOUS
  <2> HIDE DEF W, n
  <2> QED
    BY <1>1, <1>4, <2>1, <2>2, <2>3
<1>6. /\ DOMAIN Append(W, 0) = 1..n /\ Append(W, 0)[n] = 0
      /\ \A c \in DOMAIN W : Append(W, 0)[c] = W[c]
      /\ Append(W, 0) = [c \in DOMAIN Append(W, 0) |-> Append(W, 0)[c]]
  <2>1. W \in Seq(Nat) /\ Len(W) + 1 = n
    BY <1>1, <1>4, <1>5 DEF Times
  <2> HIDE DEF W, n
  <2>2. /\ Append(W, 0) \in Seq(Nat) /\ Len(Append(W, 0)) = n /\ Append(W, 0)[n] = 0
        /\ \A c \in 1..Len(W) : Append(W, 0)[c] = W[c]
    BY <2>1, AppendProperties
  <2>3. \A s \in Seq(Nat) : DOMAIN s = 1..Len(s) /\ s = [c \in DOMAIN s |-> s[c]]
    OBVIOUS
  <2>4. DOMAIN W = 1..Len(W)
    BY <2>1, <2>3
  <2> QED
    BY <2>2, <2>3, <2>4
<1>7. W1 = [c \in DOMAIN W1 |-> W1[c]] /\ DOMAIN W1 = 1..n
  BY <1>2 DEF Weights
<1>8. W1[n] = 0
  <2>1. n \in DOMAIN calls1 /\ n \notin mine /\ n \notin pending
    BY <1>1, <1>2
  <2> QED
    BY <2>1 DEF Weights
<1>9. \A c \in DOMAIN calls : W1[c] = W[c]
  <2> TAKE c \in DOMAIN calls
  <2>1. c \in DOMAIN calls1 /\ calls1[c] = calls[c]
    BY <1>1, <1>2
  <2> QED
    BY <2>1 DEF Weights
<1>10. \A c \in 1..n : c = n \/ c \in DOMAIN calls
  BY <1>1
<1> HIDE DEF W, W1, n
<1>11. \A c \in 1..n : W1[c] = Append(W, 0)[c]
  BY <1>4, <1>6, <1>8, <1>9, <1>10
<1>12. W1 = Append(W, 0)
  BY <1>6, <1>7, <1>11
<1>13. M!Total(W1) = M!Total(W)
  <2>1. 0 \in Nat /\ M!Total(W) \in Nat /\ M!Total(Append(W, 0)) = M!Total(W) + 0
    BY <1>4, TotalTyped, TotalAppend
  <2>2. M!Total(Append(W, 0)) = M!Total(W)
    BY <2>1
  <2> QED
    BY <1>12, <2>2
<1> QED
  BY <1>3, <1>13 DEF calls1, W1, W

LEMMA MatchSettleElsewhere ==
  ASSUME NEW calls \in CallLog, NEW mine, NEW pending, Shares(calls, mine, pending),
         NEW starts \in Times, NEW place, Matching(calls, pending, starts, place),
         NEW c \in DOMAIN calls \ mine, NEW ts \in Nat
  PROVE  /\ Matching(Ending(calls, c, ts), pending, starts, place)
         /\ M!Total(Weights(Ending(calls, c, ts), mine, pending, starts, place))
              = M!Total(Weights(calls, mine, pending, starts, place))
<1> USE DEF Shares
<1> DEFINE W == Weights(calls, mine, pending, starts, place)
           calls1 == Ending(calls, c, ts)
           W1 == Weights(calls1, mine, pending, starts, place)
<1>1. /\ DOMAIN calls1 = DOMAIN calls
      /\ \A b \in DOMAIN calls : calls1[b].start = calls[b].start
      /\ \A b \in mine : calls1[b] = calls[b]
  BY DEF Ending
<1> HIDE DEF calls1
<1>2. Matching(calls1, pending, starts, place)
  BY <1>1 DEF Matching
<1>3. \A b \in DOMAIN calls : W1[b] = W[b]
  <2> TAKE b \in DOMAIN calls
  <2>1. b \in DOMAIN calls1 /\ (b \in mine => calls1[b] = calls[b]) /\ calls1[b].start = calls[b].start
    BY <1>1
  <2> QED
    BY <2>1 DEF Weights
<1>4. W1 = [b \in DOMAIN calls |-> W1[b]] /\ W = [b \in DOMAIN calls |-> W[b]]
  BY <1>1 DEF Weights
<1> HIDE DEF W, W1
<1>5. W1 = W
  BY <1>3, <1>4
<1> QED
  BY <1>2, <1>5 DEF calls1, W1, W

-----------------------------------------------------------------------------
(* Reading a trace. *)

PlainTypes ==
  {"run_start", "planner_call", "planner_llm_start", "planner_llm_end", "planner_validation_start",
   "planner_validation_end", "planner_fallback_start", "planner_fallback_end", "step_start",
   "error", "reflector_call", "finalizer_call", "run_end"}
CallTypes == {"tool_start", "tool_end", "tool_error"}
PlainEvents == [type : PlainTypes, tool : {Missing}, ts : Nat]
CallEvents == [type : CallTypes, tool : TimedTools, ts : Nat]
TraceEvents == PlainEvents \cup CallEvents

Buckets == [count : Nat, total : Int, max : Int]
Readings ==
  [starts : [TimedTools -> Times], buckets : [TimedTools -> Buckets],
   failure : TraceEvents \cup {Missing}]

LEMMA EventsAre ==
  ASSUME NEW e \in TraceEvents
  PROVE  /\ e.ts \in Nat /\ e.type \in PlainTypes \cup CallTypes
         /\ e.type \in CallTypes => e.tool \in TimedTools
  BY DEF TraceEvents, PlainEvents, CallEvents, PlainTypes, CallTypes

LEMMA ReadPlain ==
  ASSUME NEW r, NEW e, e.type \in PlainTypes
  PROVE  M!Read(r, e) = IF e.type = "error" /\ r.failure = Missing
                        THEN [r EXCEPT !.failure = e] ELSE r
  BY DEF M!Read, PlainTypes

LEMMA ReadStart ==
  ASSUME NEW r \in Readings, NEW e \in TraceEvents, e.type = "tool_start"
  PROVE  /\ M!Read(r, e) \in Readings
         /\ M!Read(r, e) = [r EXCEPT !.starts[e.tool] = Append(@, e.ts)]
<1>1. M!Read(r, e) = [r EXCEPT !.starts[e.tool] = Append(@, e.ts)]
  BY DEF M!Read
<1>2. e.tool \in TimedTools /\ e.ts \in Nat
  BY EventsAre DEF CallTypes
<1>3. r.starts[e.tool] \in Times
  BY <1>2 DEF Readings
<1>4. Append(r.starts[e.tool], e.ts) \in Times
  BY <1>2, <1>3 DEF Times
<1>5. [r EXCEPT !.starts[e.tool] = Append(@, e.ts)] \in Readings
  BY <1>2, <1>4 DEF Readings
<1> QED
  BY <1>1, <1>5

LEMMA ReadSettled ==
  ASSUME NEW r \in Readings, NEW e \in TraceEvents, e.type \in {"tool_end", "tool_error"}
  PROVE  LET starts == r.starts[e.tool]
             read1 == M!Read(r, e)
         IN  /\ read1 \in Readings
             /\ e.type = "tool_error" => read1.failure = e
             /\ e.type = "tool_end" => read1.failure = r.failure
             /\ \A t \in TimedTools \ {e.tool} :
                  read1.starts[t] = r.starts[t] /\ read1.buckets[t] = r.buckets[t]
             /\ starts # <<>> =>
                  /\ read1.starts[e.tool] = Tail(starts)
                  /\ read1.buckets[e.tool].count = r.buckets[e.tool].count + 1
                  /\ read1.buckets[e.tool].total = r.buckets[e.tool].total + e.ts - Head(starts)
                  /\ read1.buckets[e.tool].max = M!Max2(r.buckets[e.tool].max, e.ts - Head(starts))
<1> DEFINE starts == r.starts[e.tool]
           settled == M!Settled(r, e)
           counted == M!Counted(r, e, Head(starts), Tail(starts))
           bucket == r.buckets[e.tool]
<1>1. e.tool \in TimedTools /\ e.ts \in Nat
  BY EventsAre DEF CallTypes
<1>2. /\ starts \in Times /\ bucket \in Buckets
      /\ r.starts \in [TimedTools -> Times] /\ r.buckets \in [TimedTools -> Buckets]
      /\ r.failure \in TraceEvents \cup {Missing}
      /\ r = [starts |-> r.starts, buckets |-> r.buckets, failure |-> r.failure]
  BY <1>1 DEF Readings
<1>3. settled = IF starts = <<>> THEN r ELSE counted
  BY DEF M!Settled
<1> DEFINE added == [count |-> bucket.count + 1, total |-> bucket.total + e.ts - Head(starts),
                     max |-> M!Max2(bucket.max, e.ts - Head(starts))]
<1>4. counted = [starts |-> [r.starts EXCEPT ![e.tool] = Tail(starts)],
                 buckets |-> [r.buckets EXCEPT ![e.tool] = added],
                 failure |-> r.failure]
  <2>1. counted = [[r EXCEPT !.starts = [@ EXCEPT ![e.tool] = Tail(starts)]]
                     EXCEPT !.buckets = [@ EXCEPT ![e.tool] = added]]
    BY DEF M!Counted
  <2> HIDE DEF counted, starts, added
  <2> QED
    BY <1>2, <2>1
<1>5. starts # <<>> => added \in Buckets /\ Tail(starts) \in Times
  <2> SUFFICES ASSUME starts # <<>> PROVE added \in Buckets /\ Tail(starts) \in Times
    OBVIOUS
  <2>1. Head(starts) \in Nat /\ Tail(starts) \in Times
    BY <1>2 DEF Times
  <2>2. bucket.count \in Nat /\ bucket.total \in Int /\ bucket.max \in Int
    BY <1>2 DEF Buckets
  <2> DEFINE head == Head(starts)
  <2> HIDE DEF starts, bucket, head
  <2>3. bucket.count + 1 \in Nat /\ bucket.total + e.ts - head \in Int /\ e.ts - head \in Int
    BY <1>1, <2>1, <2>2 DEF head
  <2>4. M!Max2(bucket.max, e.ts - head) \in Int
    BY <2>2, <2>3 DEF M!Max2
  <2> QED
    BY <2>1, <2>3, <2>4 DEF Buckets, head
<1>6. /\ starts # <<>> => counted \in Readings
      /\ settled \in Readings
      /\ settled.failure = r.failure
  <2> HIDE DEF added, starts, counted, settled
  <2>1. starts # <<>> => counted \in Readings
    BY <1>1, <1>2, <1>4, <1>5 DEF Readings
  <2>2. counted.failure = r.failure
    BY <1>4
  <2> QED
    BY <1>3, <2>1, <2>2
<1>7. /\ \A t \in TimedTools \ {e.tool} :
           settled.starts[t] = r.starts[t] /\ settled.buckets[t] = r.buckets[t]
      /\ starts # <<>> => settled.starts[e.tool] = Tail(starts) /\ settled.buckets[e.tool] = added
  <2> HIDE DEF added, starts, counted
  <2>1. /\ \A t \in TimedTools \ {e.tool} :
             counted.starts[t] = r.starts[t] /\ counted.buckets[t] = r.buckets[t]
        /\ counted.starts[e.tool] = Tail(starts) /\ counted.buckets[e.tool] = added
    BY <1>1, <1>2, <1>4
  <2> HIDE DEF settled
  <2> QED
    BY <1>3, <2>1
<1>8. M!Read(r, e) = IF e.type = "tool_error" THEN [settled EXCEPT !.failure = e] ELSE settled
  BY DEF M!Read
<1> HIDE DEF settled
<1> DEFINE read1 == M!Read(r, e)
<1>9. /\ read1 \in Readings
      /\ read1.starts = settled.starts /\ read1.buckets = settled.buckets
      /\ read1.failure = IF e.type = "tool_error" THEN e ELSE r.failure
  BY <1>6, <1>8 DEF Readings
<1> HIDE DEF read1
<1>10. /\ added.count = bucket.count + 1
       /\ added.total = bucket.total + e.ts - Head(starts)
       /\ added.max = M!Max2(bucket.max, e.ts - Head(starts))
  OBVIOUS
<1> HIDE DEF added, starts, bucket
<1> QED
  BY <1>7, <1>9, <1>10 DEF read1, starts, bucket

LEMMA ReadTyped ==
  ASSUME NEW r \in Readings, NEW e \in TraceEvents
  PROVE  M!Read(r, e) \in Readings
<1>1. CASE e.type \in PlainTypes
  <2>1. [r EXCEPT !.failure = e] \in Readings
    BY DEF Readings
  <2> QED
    BY <1>1, <2>1, ReadPlain
<1>2. CASE e.type = "tool_start"
  BY <1>2, ReadStart
<1>3. CASE e.type \in {"tool_end", "tool_error"}
  BY <1>3, ReadSettled
<1> QED
  BY <1>1, <1>2, <1>3, EventsAre DEF CallTypes

TraceLog == Seq(TraceEvents)
Unread == M!Unread(TimedTools)
Times0(log) == M!ToolTimes(log, TimedTools)

LEMMA TraceLogFacts ==
  ASSUME NEW log \in TraceLog
  PROVE  /\ Len(log) \in Nat /\ DOMAIN log = 1..Len(log)
         /\ \A i \in DOMAIN log : log[i] \in TraceEvents
  BY DEF TraceLog

LEMMA UnreadTyped == Unread \in Readings
<1>1. <<>> \in Times /\ M!NoTimes \in Buckets
  BY DEF Times, M!NoTimes, Buckets
<1> QED
  BY <1>1 DEF Unread, M!Unread, Readings

\* What is read of the first i events.
Reads(log, f) ==
  /\ f \in [0..Len(log) -> Readings]
  /\ f[0] = Unread
  /\ \A i \in 1..Len(log) : f[i] = M!Read(f[i - 1], log[i])

\* The recursive function of ToolTimes exists.
LEMMA ToolTimesIs ==
  ASSUME NEW log \in TraceLog
  PROVE  \E f : Reads(log, f) /\ Times0(log) = f[Len(log)]
<1> DEFINE n == Len(log)
           step == [x \in Readings \X Nat |-> IF x[2] \in 1..n THEN M!Read(x[1], log[x[2]]) ELSE x[1]]
           Rhs(f) == [i \in 0..n |-> IF i = 0 THEN Unread ELSE M!Read(f[i - 1], log[i])]
           f0 == CHOOSE f : f = Rhs(f)
<1>1. n \in Nat /\ \A i \in 1..n : log[i] \in TraceEvents
  BY TraceLogFacts
<1>2. Times0(log) = f0[n]
  BY DEF Times0, M!ToolTimes, Unread
<1>3. Unread \in Readings /\ \A x \in Readings, i \in 1..n : M!Read(x, log[i]) \in Readings
  BY <1>1, UnreadTyped, ReadTyped
<1> HIDE DEF n
<1>4. step \in [Readings \X Nat -> Readings]
  BY <1>3
<1>5. \A x \in Readings, i \in 1..n : step[<<x, i>>] = M!Read(x, log[i])
  <2> TAKE x \in Readings, i \in 1..n
  <2>1. <<x, i>> \in Readings \X Nat
    BY <1>1
  <2> QED
    BY <2>1
<1> HIDE DEF step
<1>6. PICK g : Primitive(g, Readings, Unread, step, n)
  BY <1>1, <1>3, <1>4, Recursive
<1>7. \A i \in 1..n : i - 1 \in 0..n /\ i # 0 /\ i \in 0..n
  BY <1>1
<1>8. \A i \in 1..n : g[i] = M!Read(g[i - 1], log[i])
  BY <1>5, <1>6, <1>7 DEF Primitive
<1>9. g = Rhs(g)
  <2>1. \A i \in 0..n : i = 0 \/ i \in 1..n
    BY <1>1
  <2>2. \A i \in 0..n : g[i] = IF i = 0 THEN Unread ELSE M!Read(g[i - 1], log[i])
    BY <1>6, <1>8, <2>1 DEF Primitive
  <2>3. \A i \in 0..n : Rhs(g)[i] = g[i]
    BY <2>2
  <2>4. Rhs(g) = [i \in 0..n |-> Rhs(g)[i]]
    OBVIOUS
  <2> HIDE DEF Rhs
  <2> QED
    BY <1>6, <2>3, <2>4 DEF Primitive
<1>10. f0 = Rhs(f0)
  BY <1>9
<1> HIDE DEF f0
<1>11. DOMAIN f0 = 0..n /\ f0 = [i \in DOMAIN f0 |-> f0[i]] /\ f0[0] = Unread
  BY <1>1, <1>10
<1>12. \A i \in 1..n : f0[i] = M!Read(f0[i - 1], log[i])
  BY <1>7, <1>10
<1>13. \A i \in 1..n : f0[i - 1] \in Readings => f0[i] \in Readings
  BY <1>3, <1>12
<1>14. f0 \in [0..n -> Readings]
  <2>1. f0[0] \in Readings
    BY <1>3, <1>11
  <2> QED
    BY <1>1, <1>11, <1>13, <2>1, RecursiveType
<1> QED
  BY <1>2, <1>11, <1>12, <1>14 DEF Reads, n

LEMMA ToolTimesTyped ==
  ASSUME NEW log \in TraceLog
  PROVE  Times0(log) \in Readings
<1>1. PICK f : Reads(log, f) /\ Times0(log) = f[Len(log)]
  BY ToolTimesIs
<1>2. Len(log) \in 0..Len(log)
  BY TraceLogFacts
<1> QED
  BY <1>1, <1>2 DEF Reads

LEMMA ToolTimesEmpty == Times0(<<>>) = Unread
<1>1. <<>> \in TraceLog /\ Len(<<>>) = 0
  BY DEF TraceLog
<1>2. PICK f : Reads(<<>>, f) /\ Times0(<<>>) = f[0]
  BY <1>1, ToolTimesIs
<1> QED
  BY <1>2 DEF Reads

\* One event more is read after all others.
LEMMA ToolTimesAppend ==
  ASSUME NEW log \in TraceLog, NEW e \in TraceEvents
  PROVE  /\ Append(log, e) \in TraceLog
         /\ Times0(Append(log, e)) = M!Read(Times0(log), e)
<1> DEFINE n == Len(log) log1 == Append(log, e)
<1>1. /\ log1 \in TraceLog /\ Len(log1) = n + 1 /\ log1[n + 1] = e /\ n \in Nat
      /\ \A i \in 1..n : log1[i] = log[i]
  BY DEF TraceLog
<1>2. PICK f : Reads(log, f) /\ Times0(log) = f[n]
  BY ToolTimesIs
<1>3. PICK g : Reads(log1, g) /\ Times0(log1) = g[n + 1]
  BY <1>1, ToolTimesIs
<1>4. f[0] = Unread /\ \A i \in 1..n : f[i] = M!Read(f[i - 1], log[i])
  BY <1>2 DEF Reads
<1>5. g[0] = Unread /\ \A i \in 1..(n + 1) : g[i] = M!Read(g[i - 1], log1[i])
  BY <1>1, <1>3 DEF Reads
<1> HIDE DEF log1, n
<1> DEFINE T == {i \in 0..n : g[i] = f[i]}
<1>6. 0 \in T
  BY <1>1, <1>4, <1>5
<1>7. ASSUME NEW i \in 0..(n - 1), i \in T PROVE i + 1 \in T
  <2> DEFINE j == i + 1
  <2>1. j \in 1..n /\ j \in 1..(n + 1) /\ j \in 0..n /\ j - 1 = i
    BY <1>1
  <2> HIDE DEF j
  <2>2. g[j] = M!Read(g[j - 1], log1[j]) /\ f[j] = M!Read(f[j - 1], log[j]) /\ log1[j] = log[j]
    BY <1>1, <1>4, <1>5, <2>1
  <2>3. g[i] = f[i]
    BY <1>7
  <2>4. g[j] = f[j]
    BY <2>1, <2>2, <2>3
  <2> QED
    BY <2>1, <2>4 DEF j
<1>8. \A i \in 0..n : i \in T
  <2> HIDE DEF T
  <2> QED
    BY <1>1, <1>6, <1>7, UpTo
<1>9. g[n] = f[n]
  BY <1>1, <1>8
<1>10. g[n + 1] = M!Read(g[n], e)
  <2>1. n + 1 \in 1..(n + 1) /\ (n + 1) - 1 = n
    BY <1>1
  <2> QED
    BY <1>1, <1>5, <2>1
<1> QED
  BY <1>1, <1>2, <1>3, <1>9, <1>10 DEF log1

\* Events that are not about calls and report no error leave nothing read.
LEMMA ToolTimesUnread ==
  ASSUME NEW log \in TraceLog, \A i \in DOMAIN log : log[i].type \in PlainTypes \ {"error"}
  PROVE  Times0(log) = Unread
<1> DEFINE n == Len(log)
<1>1. n \in Nat /\ DOMAIN log = 1..n
  BY TraceLogFacts
<1>2. PICK f : Reads(log, f) /\ Times0(log) = f[n]
  BY ToolTimesIs
<1>3. f[0] = Unread /\ \A i \in 1..n : f[i] = M!Read(f[i - 1], log[i])
  BY <1>2 DEF Reads
<1> HIDE DEF n
<1> DEFINE T == {i \in 0..n : f[i] = Unread}
<1>4. 0 \in T
  BY <1>1, <1>3
<1>5. ASSUME NEW i \in 0..(n - 1), i \in T PROVE i + 1 \in T
  <2> DEFINE j == i + 1
  <2>1. j \in 1..n /\ j \in 0..n /\ j - 1 = i
    BY <1>1
  <2> HIDE DEF j
  <2>2. f[j] = M!Read(f[j - 1], log[j]) /\ log[j].type \in PlainTypes \ {"error"}
    BY <1>1, <1>3, <2>1
  <2>3. f[j] = f[j - 1]
    BY <2>2, ReadPlain
  <2>4. f[i] = Unread
    BY <1>5
  <2>5. f[j] = Unread
    BY <2>1, <2>3, <2>4
  <2> QED
    BY <2>1, <2>5 DEF j
<1>6. \A i \in 0..n : i \in T
  <2> HIDE DEF T
  <2> QED
    BY <1>1, <1>4, <1>5, UpTo
<1>7. f[n] = Unread
  BY <1>1, <1>6
<1> QED
  BY <1>2, <1>7

-----------------------------------------------------------------------------
(* What the summary has counted of the calls of a tool. *)

OfTool(calls, tool) == {c \in DOMAIN calls : calls[c].tool = tool}

\* The time since a call started, until it settled.
Elapsed(calls, live, c, now) ==
  (IF c \in live THEN now ELSE calls[c].end) - calls[c].start

\* The starts left stand for the calls under way, and the bucket has the
\* times of the others, but for what those starts are late.
Counts(calls, live, tool, starts, bucket, now) ==
  LET mine == OfTool(calls, tool)
  IN  /\ Ordered(starts, now)
      /\ \E place : /\ Matching(calls, mine \cap live, starts, place)
                    /\ bucket.total = M!Total(Weights(calls, mine, mine \cap live, starts, place))
      /\ bucket.count = Cardinality(mine \ live)
      /\ mine = {} => bucket.max = 0
      /\ mine # {} => \E c \in mine : bucket.max <= Elapsed(calls, live, c, now)

LEMMA OfToolFinite ==
  ASSUME NEW calls \in CallLog, NEW tool, NEW S
  PROVE  /\ IsFiniteSet(OfTool(calls, tool) \ S)
         /\ OfTool(calls, tool) \in SUBSET DOMAIN calls
<1>1. OfTool(calls, tool) \ S \in SUBSET (1..Len(calls)) /\ Len(calls) \in Nat
  BY CallLogFacts DEF OfTool
<1>2. IsFiniteSet(1..Len(calls))
  BY <1>1, FS_Interval
<1>3. IsFiniteSet(OfTool(calls, tool) \ S)
  BY <1>1, <1>2, FS_Subset
<1> QED
  BY <1>3 DEF OfTool

LEMMA AppendedCall ==
  ASSUME NEW calls \in CallLog, NEW record \in CallRecords
  PROVE  LET n == Len(calls) + 1 calls1 == Append(calls, record)
         IN  /\ n \in Nat /\ n \notin DOMAIN calls
             /\ calls1 \in CallLog /\ DOMAIN calls1 = DOMAIN calls \cup {n} /\ calls1[n] = record
             /\ \A c \in DOMAIN calls : calls1[c] = calls[c]
             /\ \A tool : OfTool(calls1, tool) =
                  IF record.tool = tool THEN OfTool(calls, tool) \cup {n} ELSE OfTool(calls, tool)
<1> DEFINE n == Len(calls) + 1
           calls1 == Append(calls, record)
<1>1. n \in Nat /\ n \notin DOMAIN calls
  BY CallLogFacts
<1>2. /\ calls1 \in CallLog /\ DOMAIN calls1 = DOMAIN calls \cup {n} /\ calls1[n] = record
      /\ \A c \in DOMAIN calls : calls1[c] = calls[c]
  BY DEF CallLog
<1> HIDE DEF n, calls1
<1>3. \A tool : OfTool(calls1, tool) =
         IF record.tool = tool THEN OfTool(calls, tool) \cup {n} ELSE OfTool(calls, tool)
  BY <1>1, <1>2 DEF OfTool
<1> QED
  BY <1>1, <1>2, <1>3 DEF n, calls1

LEMMA EndedCall ==
  ASSUME NEW calls \in CallLog, NEW c \in DOMAIN calls, NEW ts \in Nat, calls[c].start <= ts
  PROVE  LET calls1 == Ending(calls, c, ts)
         IN  /\ calls1 \in CallLog /\ DOMAIN calls1 = DOMAIN calls
             /\ \A d \in DOMAIN calls : /\ calls1[d].start = calls[d].start
                                        /\ calls1[d].tool = calls[d].tool
                                        /\ calls1[d].end = IF d = c THEN ts ELSE calls[d].end
             /\ \A tool : OfTool(calls1, tool) = OfTool(calls, tool)
<1> DEFINE calls1 == Ending(calls, c, ts)
           record == [calls[c] EXCEPT !.end = ts]
<1>1. /\ Len(calls) \in Nat /\ DOMAIN calls = 1..Len(calls)
      /\ \A d \in DOMAIN calls : calls[d] \in CallRecords
      /\ calls[c] \in CallRecords
  BY CallLogFacts
<1>2. /\ record \in CallRecords /\ record.start = calls[c].start /\ record.tool = calls[c].tool
      /\ record.end = ts
  BY <1>1 DEF CallRecords
<1>3. calls1 = [d \in 1..Len(calls) |-> IF d = c THEN record ELSE calls[d]]
  <2>1. calls = [d \in 1..Len(calls) |-> calls[d]]
    BY DEF CallLog
  <2> QED
    BY <1>1, <2>1 DEF Ending
<1> HIDE DEF record, calls1
<1>4. calls1 \in [1..Len(calls) -> CallRecords]
  BY <1>1, <1>2, <1>3
<1>5. calls1 \in CallLog
  BY <1>1, <1>4, IsASeq DEF CallLog
<1>6. /\ DOMAIN calls1 = DOMAIN calls
      /\ \A d \in DOMAIN calls : /\ calls1[d].start = calls[d].start
                                 /\ calls1[d].tool = calls[d].tool
                                 /\ calls1[d].end = IF d = c THEN ts ELSE calls[d].end
  BY <1>1, <1>2, <1>3
<1>7. \A tool : OfTool(calls1, tool) = OfTool(calls, tool)
  BY <1>6 DEF OfTool
<1> QED
  BY <1>5, <1>6, <1>7 DEF calls1

\* As time goes on.
LEMMA OrderedLater ==
  ASSUME NEW starts \in Times, NEW now \in Nat, NEW ts \in Nat, now <= ts, Ordered(starts, now)
  PROVE  Ordered(starts, ts)
<1>1. \A i \in DOMAIN starts : starts[i] \in Nat /\ starts[i] <= now
  BY TimesFacts DEF Ordered
<1>2. \A i \in DOMAIN starts : starts[i] <= ts
  BY <1>1
<1> QED
  BY <1>2 DEF Ordered

LEMMA CountsLater ==
  ASSUME NEW calls \in CallLog, NEW live, NEW tool, NEW starts \in Times, NEW bucket \in Buckets,
         NEW now \in Nat, NEW ts \in Nat, now <= ts, Counts(calls, live, tool, starts, bucket, now)
  PROVE  Counts(calls, live, tool, starts, bucket, ts)
<1> DEFINE mine == OfTool(calls, tool)
<1>1. Ordered(starts, ts)
  BY OrderedLater DEF Counts
<1>2. ASSUME NEW c \in mine, bucket.max <= Elapsed(calls, live, c, now)
      PROVE  bucket.max <= Elapsed(calls, live, c, ts)
  <2>1. calls[c].start \in Nat /\ calls[c].end \in Nat /\ bucket.max \in Int
    BY CallLogFacts DEF OfTool, Buckets
  <2> QED
    BY <1>2, <2>1 DEF Elapsed
<1> QED
  BY <1>1, <1>2 DEF Counts

LEMMA CountsStart ==
  ASSUME NEW calls \in CallLog, NEW live \in SUBSET DOMAIN calls, NEW tool,
         NEW starts \in Times, NEW bucket \in Buckets, NEW now \in Nat, NEW ts \in Nat, now <= ts,
         Counts(calls, live, tool, starts, bucket, now),
         NEW record \in CallRecords, record.tool = tool, record.start = ts, record.end = ts
  PROVE  Counts(Append(calls, record), live \cup {Len(calls) + 1}, tool, Append(starts, ts), bucket, ts)
<1> DEFINE n == Len(calls) + 1
           calls1 == Append(calls, record)
           open1 == live \cup {n}
           starts1 == Append(starts, ts)
           mine == OfTool(calls, tool)
           mine1 == OfTool(calls1, tool)
<1>1. /\ n \in Nat /\ n \notin DOMAIN calls
      /\ DOMAIN calls1 = DOMAIN calls \cup {n} /\ calls1[n] = record
      /\ \A c \in DOMAIN calls : calls1[c] = calls[c]
      /\ mine1 = mine \cup {n}
  BY AppendedCall
<1>2. PICK place : /\ Matching(calls, mine \cap live, starts, place)
                   /\ bucket.total = M!Total(Weights(calls, mine, mine \cap live, starts, place))
  BY DEF Counts
<1> DEFINE W == Weights(calls, mine, mine \cap live, starts, place)
<1>3. mine \cap live \in SUBSET DOMAIN calls /\ mine \in SUBSET DOMAIN calls
  BY OfToolFinite
<1>5. Ordered(starts, ts)
  BY OrderedLater DEF Counts
<1>6. PICK place1 : /\ Matching(calls1, (mine \cap live) \cup {n}, starts1, place1)
                    /\ Ordered(starts1, ts)
                    /\ M!Total(Weights(calls1, mine \cup {n}, (mine \cap live) \cup {n}, starts1, place1)) = M!Total(W)
  <2> DEFINE pending == mine \cap live
  <2>1. Matched(calls, mine, pending, starts, place, ts)
    BY <1>2, <1>3, <1>5 DEF Matched
  <2> HIDE DEF pending, mine
  <2>2. /\ Ordered(starts1, ts)
        /\ \E place1 :
             /\ Matching(calls1, Including(pending, n), starts1, place1)
             /\ M!Total(Weights(calls1, Including(mine, n), Including(pending, n), starts1, place1))
                  = M!Total(Weights(calls, mine, pending, starts, place))
    BY <2>1, MatchStart
  <2> QED
    BY <2>2 DEF pending, Including
<1>8. mine1 \cap open1 = (mine \cap live) \cup {n} /\ mine1 \ open1 = mine \ live
  BY <1>1, <1>3
<1>9. /\ Matching(calls1, mine1 \cap open1, starts1, place1)
      /\ bucket.total = M!Total(Weights(calls1, mine1, mine1 \cap open1, starts1, place1))
  BY <1>1, <1>2, <1>6, <1>8
<1>10. bucket.count = Cardinality(mine1 \ open1)
  BY <1>8 DEF Counts
<1>11. \E c \in mine1 : bucket.max <= Elapsed(calls1, open1, c, ts)
  <2>1. CASE mine = {}
    <3>1. bucket.max = 0
      BY <2>1 DEF Counts
    <3>2. n \in mine1 /\ Elapsed(calls1, open1, n, ts) = ts - ts
      BY <1>1 DEF Elapsed
    <3> QED
      BY <3>1, <3>2
  <2>2. CASE mine # {}
    <3>1. Counts(calls, live, tool, starts, bucket, ts)
      BY CountsLater
    <3>2. PICK c \in mine : bucket.max <= Elapsed(calls, live, c, ts)
      BY <2>2, <3>1 DEF Counts
    <3>3. c \in DOMAIN calls /\ c # n /\ calls1[c] = calls[c]
      BY <1>1, <1>3
    <3>4. Elapsed(calls1, open1, c, ts) = Elapsed(calls, live, c, ts)
      BY <3>3 DEF Elapsed
    <3> QED
      BY <1>1, <3>2, <3>4
  <2> QED
    BY <2>1, <2>2
<1>12. mine1 # {}
  BY <1>1
<1> HIDE DEF n, calls1, open1, starts1, mine, mine1
<1>13. Counts(calls1, open1, tool, starts1, bucket, ts)
  BY <1>6, <1>9, <1>10, <1>11, <1>12 DEF Counts, mine1
<1> QED
  BY <1>13 DEF n, calls1, open1, starts1

LEMMA CountsStartElsewhere ==
  ASSUME NEW calls \in CallLog, NEW live \in SUBSET DOMAIN calls, NEW tool,
         NEW starts \in Times, NEW bucket \in Buckets, NEW now \in Nat, NEW ts \in Nat, now <= ts,
         Counts(calls, live, tool, starts, bucket, now),
         NEW record \in CallRecords, record.tool # tool
  PROVE  Counts(Append(calls, record), live \cup {Len(calls) + 1}, tool, starts, bucket, ts)
<1> DEFINE n == Len(calls) + 1
           calls1 == Append(calls, record)
           open1 == live \cup {n}
           mine == OfTool(calls, tool)
           mine1 == OfTool(calls1, tool)
<1>1. /\ n \in Nat /\ n \notin DOMAIN calls
      /\ \A c \in DOMAIN calls : calls1[c] = calls[c]
      /\ mine1 = mine
  BY AppendedCall
<1>2. PICK place : /\ Matching(calls, mine \cap live, starts, place)
                   /\ bucket.total = M!Total(Weights(calls, mine, mine \cap live, starts, place))
  BY DEF Counts
<1> DEFINE W == Weights(calls, mine, mine \cap live, starts, place)
<1>3. mine \cap live \in SUBSET DOMAIN calls /\ mine \in SUBSET DOMAIN calls /\ mine \cap live \in SUBSET mine
  BY OfToolFinite
<1>5. /\ Matching(calls1, mine \cap live, starts, place)
      /\ M!Total(Weights(calls1, mine, mine \cap live, starts, place)) = M!Total(W)
  <2> DEFINE pending == mine \cap live
  <2>1. Shares(calls, mine, pending) /\ Matching(calls, pending, starts, place)
    BY <1>2, <1>3 DEF Shares
  <2> HIDE DEF pending, mine
  <2>2. /\ Matching(calls1, pending, starts, place)
        /\ M!Total(Weights(calls1, mine, pending, starts, place))
             = M!Total(Weights(calls, mine, pending, starts, place))
    BY <2>1, MatchStartElsewhere
  <2> QED
    BY <2>2 DEF pending
<1>7. mine1 \cap open1 = mine \cap live /\ mine1 \ open1 = mine \ live
  BY <1>1, <1>3
<1>8. /\ Matching(calls1, mine1 \cap open1, starts, place)
      /\ bucket.total = M!Total(Weights(calls1, mine1, mine1 \cap open1, starts, place))
  BY <1>1, <1>2, <1>5, <1>7
<1>9. Counts(calls, live, tool, starts, bucket, ts)
  BY CountsLater
<1>10. /\ Ordered(starts, ts)
       /\ bucket.count = Cardinality(mine1 \ open1)
       /\ mine1 = {} => bucket.max = 0
  BY <1>1, <1>7, <1>9 DEF Counts
<1>11. \A c \in mine : Elapsed(calls1, open1, c, ts) = Elapsed(calls, live, c, ts)
  BY <1>1, <1>3 DEF Elapsed
<1>12. mine1 # {} => \E c \in mine1 : bucket.max <= Elapsed(calls1, open1, c, ts)
  BY <1>1, <1>9, <1>11 DEF Counts
<1> HIDE DEF n, calls1, open1, mine, mine1
<1>13. Counts(calls1, open1, tool, starts, bucket, ts)
  BY <1>8, <1>10, <1>12 DEF Counts, mine1
<1> QED
  BY <1>13 DEF n, calls1, open1

LEMMA CountsSettle ==
  ASSUME NEW calls \in CallLog, NEW live \in SUBSET DOMAIN calls, NEW tool,
         NEW starts \in Times, NEW bucket \in Buckets, NEW now \in Nat, NEW ts \in Nat, now <= ts,
         Counts(calls, live, tool, starts, bucket, now),
         NEW c \in live, calls[c].tool = tool, calls[c].start <= ts
  PROVE  /\ starts # <<>>
         /\ \A bucket1 \in Buckets :
              /\ bucket1.count = bucket.count + 1
              /\ bucket1.total = bucket.total + ts - Head(starts)
              /\ bucket1.max = M!Max2(bucket.max, ts - Head(starts))
              => Counts(Ending(calls, c, ts), live \ {c}, tool, Tail(starts), bucket1, ts)
<1> DEFINE calls1 == Ending(calls, c, ts)
           open1 == live \ {c}
           mine == OfTool(calls, tool)
           mine1 == OfTool(calls1, tool)
           first == Head(starts)
           rest == Tail(starts)
<1>1. /\ mine1 = mine
      /\ \A d \in DOMAIN calls : /\ calls1[d].start = calls[d].start
                                 /\ calls1[d].end = IF d = c THEN ts ELSE calls[d].end
  BY EndedCall
<1>2. PICK place : /\ Matching(calls, mine \cap live, starts, place)
                   /\ bucket.total = M!Total(Weights(calls, mine, mine \cap live, starts, place))
  BY DEF Counts
<1>3. /\ mine \cap live \in SUBSET mine /\ mine \in SUBSET DOMAIN calls
      /\ c \in mine \cap live
  BY OfToolFinite DEF OfTool
<1>4. Ordered(starts, ts)
  BY OrderedLater DEF Counts
<1>5. /\ starts # <<>> /\ rest \in Times /\ first \in Nat /\ Ordered(rest, ts)
      /\ \E d \in mine \cap live : calls[d].start <= first
      /\ \E place1 :
           /\ Matching(calls1, (mine \cap live) \ {c}, rest, place1)
           /\ M!Total(Weights(calls1, mine, (mine \cap live) \ {c}, rest, place1)) + first
                = M!Total(Weights(calls, mine, mine \cap live, starts, place)) + ts
  <2> DEFINE pending == mine \cap live
  <2>1. Matched(calls, mine, pending, starts, place, ts) /\ c \in pending
    BY <1>2, <1>3, <1>4 DEF Matched
  <2> HIDE DEF pending, mine
  <2>2. /\ starts # <<>> /\ rest \in Times /\ first \in Nat /\ Ordered(rest, ts)
        /\ \E d \in pending : calls[d].start <= first
        /\ \E place1 :
             /\ Matching(calls1, Excluding(pending, c), rest, place1)
             /\ M!Total(Weights(calls1, mine, Excluding(pending, c), rest, place1)) + first
                  = M!Total(Weights(calls, mine, pending, starts, place)) + ts
    BY <2>1, MatchSettle
  <2> QED
    BY <2>2 DEF pending, Excluding
<1>6. PICK place1 :
        /\ Matching(calls1, (mine \cap live) \ {c}, rest, place1)
        /\ M!Total(Weights(calls1, mine, (mine \cap live) \ {c}, rest, place1)) + first = bucket.total + ts
  BY <1>2, <1>5
<1>7. PICK d \in mine \cap live : calls[d].start <= first
  BY <1>5
<1>8. /\ mine1 \cap open1 = (mine \cap live) \ {c}
      /\ mine1 \ open1 = (mine \ live) \cup {c} /\ c \notin mine \ live
  BY <1>1, <1>3
<1>9. calls1 \in CallLog /\ DOMAIN calls1 = DOMAIN calls
  BY EndedCall
<1> HIDE DEF calls1, open1, first, rest
<1>10. M!Total(Weights(calls1, mine1, mine1 \cap open1, rest, place1)) \in Nat
  <2>1. mine1 \cap open1 \in SUBSET DOMAIN calls1
    BY <1>3, <1>8, <1>9
  <2>2. Weights(calls1, mine1, mine1 \cap open1, rest, place1) \in Times
    BY <1>1, <1>5, <1>6, <1>8, <1>9, <2>1, WeightsTyped
  <2> QED
    BY <2>2, TotalTyped
<1>11. Cardinality(mine1 \ open1) = Cardinality(mine \ live) + 1
  <2>1. IsFiniteSet(mine \ live)
    BY OfToolFinite
  <2> QED
    BY <1>8, <2>1, FS_AddElement
<1>12. Counts(calls, live, tool, starts, bucket, ts)
  BY CountsLater
<1>13. PICK w \in mine : bucket.max <= Elapsed(calls, live, w, ts)
  BY <1>3, <1>12 DEF Counts
<1>14. ASSUME NEW bucket1 \in Buckets, bucket1.count = bucket.count + 1,
              bucket1.total = bucket.total + ts - first, bucket1.max = M!Max2(bucket.max, ts - first)
       PROVE  Counts(calls1, open1, tool, rest, bucket1, ts)
  <2>1. /\ bucket1.count \in Nat /\ bucket1.total \in Int /\ bucket1.max \in Int
        /\ bucket.count \in Nat /\ bucket.total \in Int /\ bucket.max \in Int
    BY DEF Buckets
  <2>2. bucket1.total = M!Total(Weights(calls1, mine1, mine1 \cap open1, rest, place1))
    <3> DEFINE total == M!Total(Weights(calls1, mine1, mine1 \cap open1, rest, place1))
    <3>1. total \in Nat /\ total + first = bucket.total + ts
      BY <1>1, <1>6, <1>8, <1>10
    <3> HIDE DEF total
    <3>2. bucket1.total = total
      BY <1>5, <1>14, <2>1, <3>1
    <3> QED
      BY <3>2 DEF total
  <2>3. bucket1.count = Cardinality(mine1 \ open1)
    BY <1>11, <1>14 DEF Counts
  <2>4. \E b \in mine1 : bucket1.max <= Elapsed(calls1, open1, b, ts)
    <3>1. CASE bucket1.max = bucket.max
      <4>1. calls[w].start \in Nat /\ calls1[w].start = calls[w].start /\ w \in DOMAIN calls
        BY <1>1, <1>3, CallLogFacts
      <4>2. Elapsed(calls1, open1, w, ts) = Elapsed(calls, live, w, ts)
        BY <1>1, <1>3, <4>1 DEF Elapsed, open1
      <4> QED
        BY <1>1, <1>13, <3>1, <4>2
    <3>2. CASE bucket1.max = ts - first
      <4>1. calls[d].start \in Nat /\ calls1[d].start = calls[d].start /\ d \in DOMAIN calls
        BY <1>1, <1>3, CallLogFacts
      <4>2. Elapsed(calls1, open1, d, ts) = ts - calls[d].start
        BY <1>1, <4>1 DEF Elapsed, open1
      <4>3. ts - first <= ts - calls[d].start
        BY <1>5, <1>7, <4>1
      <4> QED
        BY <1>1, <3>2, <4>2, <4>3
    <3> QED
      BY <1>14, <3>1, <3>2 DEF M!Max2
  <2>5. Matching(calls1, mine1 \cap open1, rest, place1) /\ mine1 # {}
    BY <1>1, <1>3, <1>6, <1>8
  <2> HIDE DEF mine1
  <2> QED
    BY <1>5, <2>2, <2>3, <2>4, <2>5 DEF Counts, mine1
<1> QED
  BY <1>5, <1>14 DEF calls1, open1, first, rest

LEMMA CountsSettleElsewhere ==
  ASSUME NEW calls \in CallLog, NEW live \in SUBSET DOMAIN calls, NEW tool,
         NEW starts \in Times, NEW bucket \in Buckets, NEW now \in Nat, NEW ts \in Nat, now <= ts,
         Counts(calls, live, tool, starts, bucket, now),
         NEW c \in live, calls[c].tool # tool, calls[c].start <= ts
  PROVE  Counts(Ending(calls, c, ts), live \ {c}, tool, starts, bucket, ts)
<1> DEFINE calls1 == Ending(calls, c, ts)
           open1 == live \ {c}
           mine == OfTool(calls, tool)
           mine1 == OfTool(calls1, tool)
<1>1. /\ mine1 = mine
      /\ \A d \in DOMAIN calls : /\ calls1[d].start = calls[d].start
                                 /\ calls1[d].end = IF d = c THEN ts ELSE calls[d].end
  BY EndedCall
<1>2. PICK place : /\ Matching(calls, mine \cap live, starts, place)
                   /\ bucket.total = M!Total(Weights(calls, mine, mine \cap live, starts, place))
  BY DEF Counts
<1>3. /\ mine \cap live \in SUBSET mine /\ mine \in SUBSET DOMAIN calls
      /\ c \in DOMAIN calls \ mine
  BY OfToolFinite DEF OfTool
<1>4. /\ Matching(calls1, mine \cap live, starts, place)
      /\ M!Total(Weights(calls1, mine, mine \cap live, starts, place))
           = M!Total(Weights(calls, mine, mine \cap live, starts, place))
  <2> DEFINE pending == mine \cap live
  <2>1. /\ Shares(calls, mine, pending) /\ c \in DOMAIN calls \ mine
        /\ Matching(calls, pending, starts, place)
    BY <1>2, <1>3 DEF Shares
  <2> HIDE DEF pending, mine
  <2>2. /\ Matching(calls1, pending, starts, place)
        /\ M!Total(Weights(calls1, mine, pending, starts, place))
             = M!Total(Weights(calls, mine, pending, starts, place))
    BY <2>1, MatchSettleElsewhere
  <2> QED
    BY <2>2 DEF pending
<1>5. mine1 \cap open1 = mine \cap live /\ mine1 \ open1 = mine \ live
  BY <1>1, <1>3
<1>6. /\ Matching(calls1, mine1 \cap open1, starts, place)
      /\ bucket.total = M!Total(Weights(calls1, mine1, mine1 \cap open1, starts, place))
  BY <1>1, <1>2, <1>4, <1>5
<1>7. Counts(calls, live, tool, starts, bucket, ts)
  BY CountsLater
<1>8. /\ Ordered(starts, ts)
      /\ bucket.count = Cardinality(mine1 \ open1)
      /\ mine1 = {} => bucket.max = 0
  BY <1>1, <1>5, <1>7 DEF Counts
<1>9. \A d \in mine : Elapsed(calls1, open1, d, ts) = Elapsed(calls, live, d, ts)
  BY <1>1, <1>3 DEF Elapsed
<1>10. mine1 # {} => \E d \in mine1 : bucket.max <= Elapsed(calls1, open1, d, ts)
  BY <1>1, <1>7, <1>9 DEF Counts
<1> HIDE DEF calls1, open1, mine, mine1
<1>11. Counts(calls1, open1, tool, starts, bucket, ts)
  BY <1>6, <1>8, <1>10 DEF Counts, mine1
<1> QED
  BY <1>11 DEF calls1, open1

-----------------------------------------------------------------------------
(* The stages of planning. *)

Found(log, type) == {i \in DOMAIN log : log[i].type = type}

\* Where the first event of a type is.
LEMMA AtIs ==
  ASSUME NEW log \in TraceLog, NEW type
  PROVE  \/ Found(log, type) = {} /\ M!At(log, type) = Missing
         \/ \E i \in Found(log, type) :
              /\ \A j \in Found(log, type) : i <= j
              /\ M!At(log, type) = log[i].ts
              /\ i = CHOOSE k \in Found(log, type) : \A j \in Found(log, type) : k <= j
<1> DEFINE found == Found(log, type)
<1>1. M!At(log, type) = IF found = {} THEN Missing
                        ELSE log[CHOOSE i \in found : \A j \in found : i <= j].ts
  BY DEF M!At, Found
<1>2. found \in SUBSET Nat
  BY TraceLogFacts DEF Found
<1> HIDE DEF found
<1>3. CASE found = {}
  BY <1>1, <1>3 DEF found
<1>4. CASE found # {}
  <2>1. \E i \in found : \A j \in found : i <= j
    BY <1>2, <1>4, LeastOf
  <2> DEFINE i == CHOOSE k \in found : \A j \in found : k <= j
  <2>2. i \in found /\ \A j \in found : i <= j
    BY <2>1
  <2>3. M!At(log, type) = log[i].ts
    BY <1>1, <1>4
  <2> QED
    BY <2>2, <2>3 DEF found
<1> QED
  BY <1>3, <1>4

LEMMA AtFirst ==
  ASSUME NEW log \in TraceLog, NEW i \in DOMAIN log,
         \A j \in DOMAIN log : log[j].type = log[i].type => i <= j
  PROVE  M!At(log, log[i].type) = log[i].ts
<1> DEFINE found == Found(log, log[i].type)
<1>1. i \in found /\ \A j \in found : i <= j
  BY DEF Found
<1>2. found \in SUBSET Nat
  BY TraceLogFacts DEF Found
<1>3. PICK k \in found : (\A j \in found : k <= j) /\ M!At(log, log[i].type) = log[k].ts
  BY <1>1, AtIs
<1> HIDE DEF found
<1>4. k = i
  <2>1. k <= i /\ i <= k /\ k \in Nat /\ i \in Nat
    BY <1>1, <1>2, <1>3
  <2> QED
    BY <2>1
<1> QED
  BY <1>3, <1>4

\* Events of other types do not change it.
LEMMA AtAppend ==
  ASSUME NEW log \in TraceLog, NEW e \in TraceEvents, NEW type, e.type # type
  PROVE  M!At(Append(log, e), type) = M!At(log, type)
<1> DEFINE log1 == Append(log, e) n == Len(log) + 1
<1>1. log1 \in TraceLog
  BY ToolTimesAppend
<1>2. /\ n \in Nat /\ DOMAIN log = 1..(n - 1) /\ DOMAIN log1 = 1..n /\ log1[n] = e
      /\ \A i \in 1..(n - 1) : log1[i] = log[i]
  BY DEF TraceLog
<1> HIDE DEF log1, n
<1>3. Found(log1, type) = Found(log, type)
  <2>1. \A i \in DOMAIN log1 : i = n \/ i \in DOMAIN log
    BY <1>2
  <2>2. \A i \in DOMAIN log : i \in DOMAIN log1 /\ log1[i] = log[i]
    BY <1>2
  <2> QED
    BY <1>2, <2>1, <2>2 DEF Found
<1>4. \A i \in Found(log, type) : log1[i].ts = log[i].ts
  BY <1>2 DEF Found
<1>5. Found(log, type) = {} => M!At(log1, type) = M!At(log, type)
  BY <1>1, <1>3, AtIs
<1>6. ASSUME Found(log, type) # {} PROVE M!At(log1, type) = M!At(log, type)
  <2>1. PICK i \in Found(log, type) :
          /\ M!At(log, type) = log[i].ts
          /\ i = CHOOSE k \in Found(log, type) : \A j \in Found(log, type) : k <= j
    BY <1>6, AtIs
  <2>2. PICK i1 \in Found(log1, type) :
          /\ M!At(log1, type) = log1[i1].ts
          /\ i1 = CHOOSE k \in Found(log1, type) : \A j \in Found(log1, type) : k <= j
    BY <1>1, <1>3, <1>6, AtIs
  <2>3. i1 = i
    BY <1>3, <2>1, <2>2
  <2> QED
    BY <1>4, <2>1, <2>2, <2>3
<1> QED
  BY <1>5, <1>6 DEF log1

PlanTypes ==
  {"planner_call", "planner_llm_start", "planner_llm_end", "planner_validation_start",
   "planner_validation_end", "step_start"}

\* When the events of planning were logged.
PlanningFits(log) ==
  \E time \in PlanningTimes, checked \in Nat, began \in Nat :
    /\ M!At(log, "planner_call") = 0
    /\ M!At(log, "planner_llm_start") = 0
    /\ M!At(log, "planner_llm_end") = time.llm
    /\ M!At(log, "planner_validation_start") = checked
    /\ M!At(log, "planner_validation_end") = checked + time.validation
    /\ M!At(log, "step_start") = began
    /\ time.llm + time.validation <= began

LEMMA PlanningTime ==
  ASSUME NEW time \in PlanningTimes
  PROVE  time.llm \in Nat /\ time.fallback \in Nat /\ time.validation \in Nat
  BY TimesAssumption

LEMMA PlanningFitsAppend ==
  ASSUME NEW log \in TraceLog, PlanningFits(log), NEW e \in TraceEvents, e.type \notin PlanTypes
  PROVE  PlanningFits(Append(log, e))
<1>1. \A type \in PlanTypes : M!At(Append(log, e), type) = M!At(log, type)
  BY AtAppend
<1>2. PICK time \in PlanningTimes, checked \in Nat, began \in Nat :
    /\ M!At(log, "planner_call") = 0
    /\ M!At(log, "planner_llm_start") = 0
    /\ M!At(log, "planner_llm_end") = time.llm
    /\ M!At(log, "planner_validation_start") = checked
    /\ M!At(log, "planner_validation_end") = checked + time.validation
    /\ M!At(log, "step_start") = began
    /\ time.llm + time.validation <= began
  BY DEF PlanningFits
<1> QED
  BY <1>1, <1>2 DEF PlanningFits, PlanTypes

\* Then what planning is made of is no longer than planning.
LEMMA PlanningIsTrue ==
  ASSUME NEW log, PlanningFits(log)
  PROVE  LET stages == M!Stages(log)
         IN  stages.llm + stages.validation <= stages.planner /\ stages.llm <= stages.planner
<1>1. PICK time \in PlanningTimes, checked \in Nat, began \in Nat :
    /\ M!At(log, "planner_call") = 0
    /\ M!At(log, "planner_llm_start") = 0
    /\ M!At(log, "planner_llm_end") = time.llm
    /\ M!At(log, "planner_validation_start") = checked
    /\ M!At(log, "planner_validation_end") = checked + time.validation
    /\ M!At(log, "step_start") = began
    /\ time.llm + time.validation <= began
  BY DEF PlanningFits
<1>2. time.llm \in Nat /\ time.validation \in Nat /\ checked + time.validation \in Nat /\ 0 \in Nat
  BY PlanningTime
<1>3. \A a, b \in Nat : M!Between(a, b) = b - a
  BY TimesAssumption DEF M!Between
<1>4. Missing # began
  BY TimesAssumption
<1>5. /\ M!Stages(log).planner = M!Between(0, began)
      /\ M!Stages(log).llm = M!Between(0, time.llm)
      /\ M!Stages(log).validation = M!Between(checked, checked + time.validation)
  BY <1>1, <1>4 DEF M!Stages
<1>6. /\ M!Stages(log).planner = began
      /\ M!Stages(log).llm = time.llm
      /\ M!Stages(log).validation = time.validation
  BY <1>2, <1>3, <1>5
<1> QED
  BY <1>1, <1>2, <1>6

\* Where the first events of planning are, and when they were logged.
FirstAt(log, at) ==
  /\ at \in [PlanTypes -> Nat]
  /\ \A type \in PlanTypes :
       /\ at[type] \in DOMAIN log /\ log[at[type]].type = type
       /\ \A j \in DOMAIN log : log[j].type = type => at[type] <= j

PlannedAt(log, at, time, checked, began) ==
  /\ time \in PlanningTimes /\ checked \in Nat /\ began \in Nat
  /\ log[at["planner_call"]].ts = 0 /\ log[at["planner_llm_start"]].ts = 0
  /\ log[at["planner_llm_end"]].ts = time.llm
  /\ log[at["planner_validation_start"]].ts = checked
  /\ log[at["planner_validation_end"]].ts = checked + time.validation
  /\ log[at["step_start"]].ts = began
  /\ time.llm + time.validation <= began

LEMMA PlanningFitsIf ==
  ASSUME NEW log \in TraceLog, NEW at, FirstAt(log, at),
         NEW time, NEW checked, NEW began, PlannedAt(log, at, time, checked, began)
  PROVE  PlanningFits(log)
<1>1. \A type \in PlanTypes : M!At(log, type) = log[at[type]].ts
  BY AtFirst DEF FirstAt
<1> QED
  BY <1>1 DEF PlanningFits, PlanTypes, PlannedAt

LEMMA PlannedValid ==
  ASSUME NEW time \in PlanningTimes
  PROVE  LET log == Planned("valid", time)
         IN  /\ log \in TraceLog /\ log # <<>> /\ Last(log).ts \in Nat
             /\ \A i \in DOMAIN log : log[i].type \in PlainTypes \ {"error"}
             /\ PlanningFits(log)
<1> DEFINE log == Planned("valid", time)
           asked == time.llm
           checked == asked + time.validation
           at == [type \in PlanTypes |->
                    CASE type = "planner_call" -> 2
                      [] type = "planner_llm_start" -> 3
                      [] type = "planner_llm_end" -> 4
                      [] type = "planner_validation_start" -> 5
                      [] type = "planner_validation_end" -> 6
                      [] type = "step_start" -> 7]
<1>1. /\ time.llm \in Nat /\ time.validation \in Nat
      /\ asked \in Nat /\ checked \in Nat
      /\ time.llm + time.validation <= checked
  BY PlanningTime
<1>2. log = <<Plain("run_start", 0),
              Plain("planner_call", 0),
              Plain("planner_llm_start", 0),
              Plain("planner_llm_end", asked),
              Plain("planner_validation_start", asked),
              Plain("planner_validation_end", checked),
              Plain("step_start", checked)>>
  BY DEF Planned
<1> HIDE DEF log, asked, checked
<1>3. \A type \in PlainTypes, ts \in Nat : Plain(type, ts) \in TraceEvents
  BY DEF Plain, Event, TraceEvents, PlainEvents
<1>4. log \in TraceLog /\ Len(log) = 7 /\ DOMAIN log = 1..7
  <2>1. /\ Plain("run_start", 0) \in TraceEvents
        /\ Plain("planner_call", 0) \in TraceEvents
        /\ Plain("planner_llm_start", 0) \in TraceEvents
        /\ Plain("planner_llm_end", asked) \in TraceEvents
        /\ Plain("planner_validation_start", asked) \in TraceEvents
        /\ Plain("planner_validation_end", checked) \in TraceEvents
        /\ Plain("step_start", checked) \in TraceEvents
    BY <1>1, <1>3 DEF PlainTypes
  <2> QED
    BY <1>2, <2>1 DEF TraceLog
<1>5. /\ log[1].type = "run_start" /\ log[1].ts = 0
      /\ log[2].type = "planner_call" /\ log[2].ts = 0
      /\ log[3].type = "planner_llm_start" /\ log[3].ts = 0
      /\ log[4].type = "planner_llm_end" /\ log[4].ts = asked
      /\ log[5].type = "planner_validation_start" /\ log[5].ts = asked
      /\ log[6].type = "planner_validation_end" /\ log[6].ts = checked
      /\ log[7].type = "step_start" /\ log[7].ts = checked
  BY <1>2 DEF Plain, Event
<1>6. \A i \in DOMAIN log : i \in {1, 2, 3, 4, 5, 6, 7}
  BY <1>4
<1>7. \A i \in DOMAIN log : log[i].type \in PlainTypes \ {"error"}
  BY <1>5, <1>6 DEF PlainTypes
<1>8. Last(log).ts \in Nat
  BY <1>1, <1>4, <1>5 DEF Last
<1>9. log # <<>>
  <2>1. Len(<<>>) = 0
    OBVIOUS
  <2>2. Len(log) # 0
    BY <1>4
  <2> QED
    BY <2>1, <2>2
<1>10. at \in [PlanTypes -> Nat]
  BY DEF PlanTypes
<1>11. /\ at["planner_call"] = 2
       /\ at["planner_llm_start"] = 3
       /\ at["planner_llm_end"] = 4
       /\ at["planner_validation_start"] = 5
       /\ at["planner_validation_end"] = 6
       /\ at["step_start"] = 7
  BY DEF PlanTypes
<1> HIDE DEF at
<1>12. ASSUME NEW type \in PlanTypes
       PROVE  /\ at[type] \in DOMAIN log /\ log[at[type]].type = type
              /\ \A j \in DOMAIN log : log[j].type = type => at[type] <= j
  BY <1>4, <1>5, <1>6, <1>11 DEF PlanTypes
<1>13. FirstAt(log, at)
  BY <1>10, <1>12 DEF FirstAt
<1>14. /\ log[at["planner_call"]].ts = 0 /\ log[at["planner_llm_start"]].ts = 0
       /\ log[at["planner_llm_end"]].ts = time.llm
       /\ log[at["planner_validation_start"]].ts = asked
       /\ log[at["planner_validation_end"]].ts = asked + time.validation
       /\ log[at["step_start"]].ts = checked
  BY <1>5, <1>11 DEF asked, checked
<1>15. PlannedAt(log, at, time, asked, checked)
  BY <1>1, <1>14 DEF PlannedAt
<1>16. PlanningFits(log)
  BY <1>4, <1>13, <1>15, PlanningFitsIf
<1> QED
  BY <1>4, <1>7, <1>8, <1>16, <1>9 DEF log

LEMMA PlannedNone ==
  ASSUME NEW time \in PlanningTimes
  PROVE  LET log == Planned("none", time)
         IN  /\ log \in TraceLog /\ log # <<>> /\ Last(log).ts \in Nat
             /\ \A i \in DOMAIN log : log[i].type \in PlainTypes \ {"error"}
             /\ PlanningFits(log)
<1> DEFINE log == Planned("none", time)
           asked == time.llm
           fallenBack == asked + time.fallback
           began == fallenBack + time.validation
           at == [type \in PlanTypes |->
                    CASE type = "planner_call" -> 2
                      [] type = "planner_llm_start" -> 3
                      [] type = "planner_llm_end" -> 4
                      [] type = "planner_validation_start" -> 7
                      [] type = "planner_validation_end" -> 8
                      [] type = "step_start" -> 9]
<1>1. /\ time.llm \in Nat /\ time.validation \in Nat
      /\ asked \in Nat /\ fallenBack \in Nat /\ began \in Nat
      /\ time.llm + time.validation <= began
  BY PlanningTime
<1>2. log = <<Plain("run_start", 0),
              Plain("planner_call", 0),
              Plain("planner_llm_start", 0),
              Plain("planner_llm_end", asked),
              Plain("planner_fallback_start", asked),
              Plain("planner_fallback_end", fallenBack),
              Plain("planner_validation_start", fallenBack),
              Plain("planner_validation_end", began),
              Plain("step_start", began)>>
  BY DEF Planned
<1> HIDE DEF log, asked, fallenBack, began
<1>3. \A type \in PlainTypes, ts \in Nat : Plain(type, ts) \in TraceEvents
  BY DEF Plain, Event, TraceEvents, PlainEvents
<1>4. log \in TraceLog /\ Len(log) = 9 /\ DOMAIN log = 1..9
  <2>1. /\ Plain("run_start", 0) \in TraceEvents
        /\ Plain("planner_call", 0) \in TraceEvents
        /\ Plain("planner_llm_start", 0) \in TraceEvents
        /\ Plain("planner_llm_end", asked) \in TraceEvents
        /\ Plain("planner_fallback_start", asked) \in TraceEvents
        /\ Plain("planner_fallback_end", fallenBack) \in TraceEvents
        /\ Plain("planner_validation_start", fallenBack) \in TraceEvents
        /\ Plain("planner_validation_end", began) \in TraceEvents
        /\ Plain("step_start", began) \in TraceEvents
    BY <1>1, <1>3 DEF PlainTypes
  <2> QED
    BY <1>2, <2>1 DEF TraceLog
<1>5. /\ log[1].type = "run_start" /\ log[1].ts = 0
      /\ log[2].type = "planner_call" /\ log[2].ts = 0
      /\ log[3].type = "planner_llm_start" /\ log[3].ts = 0
      /\ log[4].type = "planner_llm_end" /\ log[4].ts = asked
      /\ log[5].type = "planner_fallback_start" /\ log[5].ts = asked
      /\ log[6].type = "planner_fallback_end" /\ log[6].ts = fallenBack
      /\ log[7].type = "planner_validation_start" /\ log[7].ts = fallenBack
      /\ log[8].type = "planner_validation_end" /\ log[8].ts = began
      /\ log[9].type = "step_start" /\ log[9].ts = began
  BY <1>2 DEF Plain, Event
<1>6. \A i \in DOMAIN log : i \in {1, 2, 3, 4, 5, 6, 7, 8, 9}
  BY <1>4
<1>7. \A i \in DOMAIN log : log[i].type \in PlainTypes \ {"error"}
  BY <1>5, <1>6 DEF PlainTypes
<1>8. Last(log).ts \in Nat
  BY <1>1, <1>4, <1>5 DEF Last
<1>9. log # <<>>
  <2>1. Len(<<>>) = 0
    OBVIOUS
  <2>2. Len(log) # 0
    BY <1>4
  <2> QED
    BY <2>1, <2>2
<1>10. at \in [PlanTypes -> Nat]
  BY DEF PlanTypes
<1>11. /\ at["planner_call"] = 2
       /\ at["planner_llm_start"] = 3
       /\ at["planner_llm_end"] = 4
       /\ at["planner_validation_start"] = 7
       /\ at["planner_validation_end"] = 8
       /\ at["step_start"] = 9
  BY DEF PlanTypes
<1> HIDE DEF at
<1>12. ASSUME NEW type \in PlanTypes
       PROVE  /\ at[type] \in DOMAIN log /\ log[at[type]].type = type
              /\ \A j \in DOMAIN log : log[j].type = type => at[type] <= j
  BY <1>4, <1>5, <1>6, <1>11 DEF PlanTypes
<1>13. FirstAt(log, at)
  BY <1>10, <1>12 DEF FirstAt
<1>14. /\ log[at["planner_call"]].ts = 0 /\ log[at["planner_llm_start"]].ts = 0
       /\ log[at["planner_llm_end"]].ts = time.llm
       /\ log[at["planner_validation_start"]].ts = fallenBack
       /\ log[at["planner_validation_end"]].ts = fallenBack + time.validation
       /\ log[at["step_start"]].ts = began
  BY <1>5, <1>11 DEF asked, fallenBack, began
<1>15. PlannedAt(log, at, time, fallenBack, began)
  BY <1>1, <1>14 DEF PlannedAt
<1>16. PlanningFits(log)
  BY <1>4, <1>13, <1>15, PlanningFitsIf
<1> QED
  BY <1>4, <1>7, <1>8, <1>16, <1>9 DEF log

LEMMA PlannedInvalid ==
  ASSUME NEW time \in PlanningTimes
  PROVE  LET log == Planned("invalid", time)
         IN  /\ log \in TraceLog /\ log # <<>> /\ Last(log).ts \in Nat
             /\ \A i \in DOMAIN log : log[i].type \in PlainTypes \ {"error"}
             /\ PlanningFits(log)
<1> DEFINE log == Planned("invalid", time)
           asked == time.llm
           checked == asked + time.validation
           mended == checked + time.fallback
           began == mended + time.validation
           at == [type \in PlanTypes |->
                    CASE type = "planner_call" -> 2
                      [] type = "planner_llm_start" -> 3
                      [] type = "planner_llm_end" -> 4
                      [] type = "planner_validation_start" -> 5
                      [] type = "planner_validation_end" -> 6
                      [] type = "step_start" -> 11]
<1>1. /\ time.llm \in Nat /\ time.validation \in Nat
      /\ asked \in Nat /\ checked \in Nat /\ mended \in Nat /\ began \in Nat
      /\ time.llm + time.validation <= began
  BY PlanningTime
<1>2. log = <<Plain("run_start", 0),
              Plain("planner_call", 0),
              Plain("planner_llm_start", 0),
              Plain("planner_llm_end", asked),
              Plain("planner_validation_start", asked),
              Plain("planner_validation_end", checked),
              Plain("planner_fallback_start", checked),
              Plain("planner_fallback_end", mended),
              Plain("planner_validation_start", mended),
              Plain("planner_validation_end", began),
              Plain("step_start", began)>>
  BY DEF Planned
<1> HIDE DEF log, asked, checked, mended, began
<1>3. \A type \in PlainTypes, ts \in Nat : Plain(type, ts) \in TraceEvents
  BY DEF Plain, Event, TraceEvents, PlainEvents
<1>4. log \in TraceLog /\ Len(log) = 11 /\ DOMAIN log = 1..11
  <2>1. /\ Plain("run_start", 0) \in TraceEvents
        /\ Plain("planner_call", 0) \in TraceEvents
        /\ Plain("planner_llm_start", 0) \in TraceEvents
        /\ Plain("planner_llm_end", asked) \in TraceEvents
        /\ Plain("planner_validation_start", asked) \in TraceEvents
        /\ Plain("planner_validation_end", checked) \in TraceEvents
        /\ Plain("planner_fallback_start", checked) \in TraceEvents
        /\ Plain("planner_fallback_end", mended) \in TraceEvents
        /\ Plain("planner_validation_start", mended) \in TraceEvents
        /\ Plain("planner_validation_end", began) \in TraceEvents
        /\ Plain("step_start", began) \in TraceEvents
    BY <1>1, <1>3 DEF PlainTypes
  <2> QED
    BY <1>2, <2>1 DEF TraceLog
<1>5. /\ log[1].type = "run_start" /\ log[1].ts = 0
      /\ log[2].type = "planner_call" /\ log[2].ts = 0
      /\ log[3].type = "planner_llm_start" /\ log[3].ts = 0
      /\ log[4].type = "planner_llm_end" /\ log[4].ts = asked
      /\ log[5].type = "planner_validation_start" /\ log[5].ts = asked
      /\ log[6].type = "planner_validation_end" /\ log[6].ts = checked
      /\ log[7].type = "planner_fallback_start" /\ log[7].ts = checked
      /\ log[8].type = "planner_fallback_end" /\ log[8].ts = mended
      /\ log[9].type = "planner_validation_start" /\ log[9].ts = mended
      /\ log[10].type = "planner_validation_end" /\ log[10].ts = began
      /\ log[11].type = "step_start" /\ log[11].ts = began
  BY <1>2 DEF Plain, Event
<1>6. \A i \in DOMAIN log : i \in {1, 2, 3, 4, 5, 6, 7, 8, 9, 10, 11}
  BY <1>4
<1>7. \A i \in DOMAIN log : log[i].type \in PlainTypes \ {"error"}
  BY <1>5, <1>6 DEF PlainTypes
<1>8. Last(log).ts \in Nat
  BY <1>1, <1>4, <1>5 DEF Last
<1>9. log # <<>>
  <2>1. Len(<<>>) = 0
    OBVIOUS
  <2>2. Len(log) # 0
    BY <1>4
  <2> QED
    BY <2>1, <2>2
<1>10. at \in [PlanTypes -> Nat]
  BY DEF PlanTypes
<1>11. /\ at["planner_call"] = 2
       /\ at["planner_llm_start"] = 3
       /\ at["planner_llm_end"] = 4
       /\ at["planner_validation_start"] = 5
       /\ at["planner_validation_end"] = 6
       /\ at["step_start"] = 11
  BY DEF PlanTypes
<1> HIDE DEF at
<1>12. ASSUME NEW type \in PlanTypes
       PROVE  /\ at[type] \in DOMAIN log /\ log[at[type]].type = type
              /\ \A j \in DOMAIN log : log[j].type = type => at[type] <= j
  BY <1>4, <1>5, <1>6, <1>11 DEF PlanTypes
<1>13. FirstAt(log, at)
  BY <1>10, <1>12 DEF FirstAt
<1>14. /\ log[at["planner_call"]].ts = 0 /\ log[at["planner_llm_start"]].ts = 0
       /\ log[at["planner_llm_end"]].ts = time.llm
       /\ log[at["planner_validation_start"]].ts = asked
       /\ log[at["planner_validation_end"]].ts = asked + time.validation
       /\ log[at["step_start"]].ts = began
  BY <1>5, <1>11 DEF asked, checked, mended, began
<1>15. PlannedAt(log, at, time, asked, began)
  BY <1>1, <1>14 DEF PlannedAt
<1>16. PlanningFits(log)
  BY <1>4, <1>13, <1>15, PlanningFitsIf
<1> QED
  BY <1>4, <1>7, <1>8, <1>16, <1>9 DEF log

-----------------------------------------------------------------------------
(* What is read of a run, event by event. *)

Clock(log) == IF log = <<>> THEN 0 ELSE Last(log).ts

\* The failure read is the last of a tool.
FailureFits(log) ==
  \A i \in Found(log, "tool_error") :
    (\A j \in Found(log, "tool_error") : j <= i) => Times0(log).failure = log[i]

ToolsFit(log, calls, live) ==
  \A tool \in TimedTools :
    Counts(calls, live, tool, Times0(log).starts[tool], Times0(log).buckets[tool], Clock(log))

RunFits(log, calls, live) ==
  /\ log \in TraceLog /\ calls \in CallLog /\ live \in SUBSET DOMAIN calls
  /\ log = <<>> => calls = <<>>
  /\ log # <<>> => PlanningFits(log)
  /\ \A c \in DOMAIN calls : calls[c].start <= Clock(log)
  /\ ToolsFit(log, calls, live)
  /\ FailureFits(log)

LEMMA ClockAppend ==
  ASSUME NEW log \in TraceLog, NEW e \in TraceEvents
  PROVE  /\ Clock(log) \in Nat /\ Clock(Append(log, e)) = e.ts
         /\ Append(log, e) \in TraceLog /\ Append(log, e) # <<>>
<1>1. /\ Append(log, e) \in TraceLog /\ Len(Append(log, e)) = Len(log) + 1 /\ Len(log) \in Nat
      /\ Append(log, e)[Len(log) + 1] = e
  BY DEF TraceLog
<1>2. Len(<<>>) = 0
  OBVIOUS
<1> DEFINE log1 == Append(log, e)
<1> HIDE DEF log1
<1>3. log1 # <<>> /\ Last(log1) = e
  BY <1>1, <1>2 DEF log1, Last
<1>4. CASE log # <<>>
  <2>1. Len(log) # 0 /\ DOMAIN log = 1..Len(log)
    BY <1>4 DEF TraceLog
  <2>2. Len(log) \in DOMAIN log
    BY <1>1, <2>1
  <2>3. log[Len(log)].ts \in Nat
    BY <2>2, TraceLogFacts, EventsAre
  <2> QED
    BY <1>1, <1>3, <1>4, <2>3 DEF Clock, Last, log1
<1> QED
  BY <1>1, <1>3, <1>4 DEF Clock, log1

LEMMA FailureFitsAppend ==
  ASSUME NEW log \in TraceLog, FailureFits(log), NEW e \in TraceEvents
  PROVE  FailureFits(Append(log, e))
<1> DEFINE log1 == Append(log, e) n == Len(log) + 1
           seen == Times0(log)
           failures == Found(log, "tool_error")
           failures1 == Found(log1, "tool_error")
<1>1. /\ n \in Nat /\ DOMAIN log = 1..(n - 1) /\ DOMAIN log1 = 1..n /\ log1[n] = e
      /\ \A i \in 1..(n - 1) : log1[i] = log[i]
  BY DEF TraceLog
<1>2. Times0(log1) = M!Read(seen, e) /\ seen \in Readings
  BY ToolTimesAppend, ToolTimesTyped
<1> HIDE DEF log1, n, seen
<1>3. \A i \in DOMAIN log1 : i = n \/ i \in DOMAIN log
  BY <1>1
<1>4. \A i \in DOMAIN log : i \in DOMAIN log1 /\ log1[i] = log[i] /\ i # n /\ i <= n /\ i \in Nat
  BY <1>1
<1>5. ASSUME e.type = "tool_error",
             NEW i \in failures1, \A j \in failures1 : j <= i
      PROVE  Times0(log1).failure = log1[i]
  <2>1. n \in failures1
    BY <1>1, <1>5 DEF Found
  <2>2. i = n
    <3>1. n <= i /\ i \in 1..n
      BY <1>1, <1>5, <2>1 DEF Found
    <3> QED
      BY <1>1, <3>1
  <2>3. Times0(log1).failure = e
    BY <1>2, <1>5, ReadSettled
  <2> QED
    BY <1>1, <2>2, <2>3
<1>6. ASSUME e.type # "tool_error",
             NEW i \in failures1, \A j \in failures1 : j <= i
      PROVE  Times0(log1).failure = log1[i]
  <2>1. failures1 = failures
    BY <1>1, <1>3, <1>4, <1>6 DEF Found
  <2>2. seen.failure = log[i] /\ log1[i] = log[i] /\ i \in DOMAIN log /\ log[i].type = "tool_error"
    BY <1>4, <1>6, <2>1 DEF FailureFits, Found, seen
  <2>3. seen.failure # Missing
    <3>1. log[i] \in TraceEvents
      BY <2>2, TraceLogFacts
    <3>2. log[i] \in [type : {"tool_error"}, tool : TimedTools, ts : Nat]
      BY <2>2, <3>1 DEF TraceEvents, PlainEvents, CallEvents, PlainTypes, CallTypes
    <3> QED
      BY <2>2, <3>2, TimesAssumption
  <2>4. M!Read(seen, e).failure = seen.failure
    <3>1. CASE e.type \in PlainTypes
      BY <2>3, <3>1, ReadPlain
    <3>2. CASE e.type = "tool_start"
      BY <1>2, <3>2, ReadStart DEF Readings
    <3>3. CASE e.type = "tool_end"
      BY <1>2, <3>3, ReadSettled
    <3> QED
      BY <1>6, <3>1, <3>2, <3>3, EventsAre DEF CallTypes
  <2> QED
    BY <1>2, <2>2, <2>4
<1> QED
  BY <1>5, <1>6 DEF FailureFits, log1

LEMMA CountsNone ==
  ASSUME NEW tool, NEW now
  PROVE  Counts(<<>>, {}, tool, <<>>, M!NoTimes, now)
<1> DEFINE mine == OfTool(<<>>, tool)
           place == [c \in {} |-> 0]
           W == Weights(<<>>, mine, {}, <<>>, place)
<1>1. DOMAIN <<>> = {} /\ mine = {} /\ mine \cap {} = {} /\ mine \ {} = {}
  BY DEF OfTool
<1>2. Ordered(<<>>, now)
  BY <1>1 DEF Ordered
<1>3. Matching(<<>>, {}, <<>>, place)
  BY <1>1 DEF Matching
<1>4. M!Total(W) = 0
  <2>1. <<>> \in CallLog /\ <<>> \in Times /\ {} \in SUBSET DOMAIN <<>>
    BY DEF CallLog, Times
  <2>2. W \in Times
    BY <1>3, <2>1, WeightsTyped
  <2>3. DOMAIN W = {}
    BY <1>1 DEF Weights
  <2> HIDE DEF W
  <2>4. Len(W) \in Nat /\ DOMAIN W = 1..Len(W)
    BY <2>2, TimesFacts
  <2>5. Len(W) = 0
    BY <2>3, <2>4
  <2>6. PICK sum : Sums(W, sum) /\ M!Total(W) = sum[0]
    BY <2>2, <2>5, TotalIs
  <2> QED
    BY <2>6 DEF Sums
<1>5. Cardinality({}) = 0
  BY FS_EmptySet
<1>6. M!NoTimes.total = 0 /\ M!NoTimes.count = 0 /\ M!NoTimes.max = 0
  BY DEF M!NoTimes
<1> HIDE DEF place
<1> QED
  BY <1>1, <1>2, <1>3, <1>4, <1>5, <1>6 DEF Counts

\* Before a run, and once it is planned.
LEMMA CountsNothing ==
  ASSUME NEW log \in TraceLog, Times0(log) = Unread
  PROVE  ToolsFit(log, <<>>, {})
<1>1. \A tool \in TimedTools : Unread.starts[tool] = <<>> /\ Unread.buckets[tool] = M!NoTimes
  BY DEF Unread, M!Unread
<1> QED
  BY <1>1, CountsNone DEF ToolsFit

LEMMA RunFitsEmpty == RunFits(<<>>, <<>>, {})
<1>1. <<>> \in TraceLog /\ <<>> \in CallLog /\ DOMAIN <<>> = {}
  BY DEF TraceLog, CallLog
<1>2. ToolsFit(<<>>, <<>>, {})
  BY <1>1, ToolTimesEmpty, CountsNothing
<1>3. FailureFits(<<>>)
  BY <1>1 DEF FailureFits, Found
<1> QED
  BY <1>1, <1>2, <1>3 DEF RunFits

LEMMA RunFitsPlanned ==
  ASSUME NEW plan \in {"valid", "none", "invalid"}, NEW time \in PlanningTimes
  PROVE  RunFits(Planned(plan, time), <<>>, {})
<1> DEFINE log == Planned(plan, time)
<1>1. /\ log \in TraceLog /\ log # <<>> /\ Last(log).ts \in Nat
      /\ \A i \in DOMAIN log : log[i].type \in PlainTypes \ {"error"}
      /\ PlanningFits(log)
  BY PlannedValid, PlannedNone, PlannedInvalid
<1> HIDE DEF log
<1>2. ToolsFit(log, <<>>, {})
  BY <1>1, ToolTimesUnread, CountsNothing
<1>3. FailureFits(log)
  BY <1>1 DEF FailureFits, Found, PlainTypes
<1>4. <<>> \in CallLog /\ DOMAIN <<>> = {}
  BY DEF CallLog
<1> QED
  BY <1>1, <1>2, <1>3, <1>4 DEF RunFits, log

\* An event that is about no call.
LEMMA RunFitsPlain ==
  ASSUME NEW log, NEW calls, NEW live, RunFits(log, calls, live), log # <<>>,
         NEW e \in TraceEvents, e.type \in PlainTypes \ PlanTypes, Clock(log) <= e.ts
  PROVE  RunFits(Append(log, e), calls, live)
<1> DEFINE log1 == Append(log, e)
<1>1. log \in TraceLog /\ calls \in CallLog
  BY DEF RunFits
<1>2. Clock(log) \in Nat /\ Clock(log1) = e.ts /\ log1 \in TraceLog /\ log1 # <<>> /\ e.ts \in Nat
  BY <1>1, ClockAppend, EventsAre
<1>3. Times0(log) \in Readings /\ Times0(log1) = M!Read(Times0(log), e)
  BY <1>1, ToolTimesAppend, ToolTimesTyped
<1>4. /\ Times0(log1).starts = Times0(log).starts
      /\ Times0(log1).buckets = Times0(log).buckets
  BY <1>3, ReadPlain DEF Readings
<1>5. ToolsFit(log1, calls, live)
  <2> SUFFICES ASSUME NEW tool \in TimedTools
               PROVE  Counts(calls, live, tool, Times0(log1).starts[tool], Times0(log1).buckets[tool], Clock(log1))
    BY DEF ToolsFit
  <2>1. Counts(calls, live, tool, Times0(log).starts[tool], Times0(log).buckets[tool], Clock(log))
    BY DEF RunFits, ToolsFit
  <2>2. Times0(log).starts[tool] \in Times /\ Times0(log).buckets[tool] \in Buckets
    BY <1>3 DEF Readings
  <2>3. Counts(calls, live, tool, Times0(log).starts[tool], Times0(log).buckets[tool], e.ts)
    BY <1>1, <1>2, <2>1, <2>2, CountsLater
  <2> QED
    BY <1>2, <1>4, <2>3
<1>6. FailureFits(log1)
  BY <1>1, FailureFitsAppend DEF RunFits
<1>7. PlanningFits(log1)
  BY <1>1, PlanningFitsAppend DEF RunFits
<1>8. \A c \in DOMAIN calls : calls[c].start <= e.ts
  <2> TAKE c \in DOMAIN calls
  <2>1. calls[c].start <= Clock(log) /\ calls[c].start \in Nat
    BY <1>1, CallLogFacts DEF RunFits
  <2> QED
    BY <1>2, <2>1
<1> HIDE DEF log1
<1>9. RunFits(log1, calls, live)
  BY <1>2, <1>5, <1>6, <1>7, <1>8 DEF RunFits
<1> QED
  BY <1>9 DEF log1

LEMMA RunFitsStart ==
  ASSUME NEW log, NEW calls, NEW live, RunFits(log, calls, live), log # <<>>,
         NEW tool \in TimedTools, NEW ts \in Nat, Clock(log) <= ts
  PROVE  RunFits(Append(log, Event("tool_start", tool, ts)),
                 Append(calls, [tool |-> tool, start |-> ts, end |-> ts]), live \cup {Len(calls) + 1})
<1> DEFINE e == Event("tool_start", tool, ts)
           record == [tool |-> tool, start |-> ts, end |-> ts]
           log1 == Append(log, e)
           calls1 == Append(calls, record)
           open1 == live \cup {Len(calls) + 1}
<1>1. log \in TraceLog /\ calls \in CallLog /\ live \in SUBSET DOMAIN calls
  BY DEF RunFits
<1>2. e \in TraceEvents /\ e.type = "tool_start" /\ e.tool = tool /\ e.ts = ts
  BY DEF Event, TraceEvents, CallEvents, CallTypes
<1>3. record \in CallRecords /\ record.tool = tool /\ record.start = ts /\ record.end = ts
  BY DEF CallRecords
<1> HIDE DEF e, record
<1>4. Clock(log) \in Nat /\ Clock(log1) = ts /\ log1 \in TraceLog /\ log1 # <<>>
  BY <1>1, <1>2, ClockAppend
<1>5. Times0(log) \in Readings /\ Times0(log1) = M!Read(Times0(log), e)
  BY <1>1, <1>2, ToolTimesAppend, ToolTimesTyped
<1> DEFINE starts == Times0(log).starts
           buckets == Times0(log).buckets
<1>6. starts \in [TimedTools -> Times] /\ buckets \in [TimedTools -> Buckets]
  BY <1>5 DEF Readings
<1>7. /\ Times0(log1).starts = [starts EXCEPT ![tool] = Append(@, ts)]
      /\ Times0(log1).buckets = buckets
  <2>1. Times0(log1) = [Times0(log) EXCEPT !.starts[tool] = Append(@, ts)]
    BY <1>2, <1>5, ReadStart
  <2> QED
    BY <1>5, <2>1 DEF Readings
<1>8. /\ calls1 \in CallLog /\ DOMAIN calls1 = DOMAIN calls \cup {Len(calls) + 1}
      /\ calls1[Len(calls) + 1] = record /\ \A c \in DOMAIN calls : calls1[c] = calls[c]
  BY <1>1, <1>3, AppendedCall
<1> HIDE DEF log1, calls1, starts, buckets
<1>9. ASSUME NEW t \in TimedTools
      PROVE  Counts(calls1, open1, t, Times0(log1).starts[t], Times0(log1).buckets[t], ts)
  <2>1. Counts(calls, live, t, starts[t], buckets[t], Clock(log))
    BY DEF RunFits, ToolsFit, starts, buckets
  <2>2. starts[t] \in Times /\ buckets[t] \in Buckets
    BY <1>6
  <2>3. CASE t = tool
    <3>1. Times0(log1).starts[t] = Append(starts[t], ts) /\ Times0(log1).buckets[t] = buckets[t]
      BY <1>6, <1>7, <2>3
    <3>2. Counts(calls1, open1, t, Append(starts[t], ts), buckets[t], ts)
      BY <1>1, <1>3, <1>4, <2>1, <2>2, <2>3, CountsStart DEF calls1
    <3> QED
      BY <3>1, <3>2
  <2>4. CASE t # tool
    <3>1. Times0(log1).starts[t] = starts[t] /\ Times0(log1).buckets[t] = buckets[t]
      BY <1>6, <1>7, <2>4
    <3>2. Counts(calls1, open1, t, starts[t], buckets[t], ts)
      BY <1>1, <1>3, <1>4, <2>1, <2>2, <2>4, CountsStartElsewhere DEF calls1
    <3> QED
      BY <3>1, <3>2
  <2> QED
    BY <2>3, <2>4
<1>10. ToolsFit(log1, calls1, open1)
  BY <1>4, <1>9 DEF ToolsFit
<1>11. FailureFits(log1)
  BY <1>1, <1>2, FailureFitsAppend DEF RunFits, log1
<1>12. PlanningFits(log1)
  BY <1>1, <1>2, PlanningFitsAppend DEF RunFits, PlanTypes, log1
<1>13. \A c \in DOMAIN calls1 : calls1[c].start <= ts
  <2>1. \A c \in DOMAIN calls : calls[c].start <= Clock(log) /\ calls[c].start \in Nat
    BY <1>1, CallLogFacts DEF RunFits
  <2>2. \A c \in DOMAIN calls : calls1[c].start <= ts
    BY <1>4, <1>8, <2>1
  <2>3. calls1[Len(calls) + 1].start <= ts
    BY <1>3, <1>8
  <2> QED
    BY <1>8, <2>2, <2>3
<1>14. open1 \in SUBSET DOMAIN calls1
  BY <1>1, <1>8
<1> HIDE DEF open1
<1>15. RunFits(log1, calls1, open1)
  BY <1>4, <1>8, <1>10, <1>11, <1>12, <1>13, <1>14 DEF RunFits
<1> QED
  BY <1>15 DEF log1, calls1, open1, e, record

LEMMA RunFitsSettle ==
  ASSUME NEW log, NEW calls, NEW live, RunFits(log, calls, live), log # <<>>,
         NEW c \in live, NEW type \in {"tool_end", "tool_error"}, NEW ts \in Nat, Clock(log) <= ts
  PROVE  RunFits(Append(log, Event(type, calls[c].tool, ts)), Ending(calls, c, ts), live \ {c})
<1> DEFINE tool == calls[c].tool
           e == Event(type, tool, ts)
           log1 == Append(log, e)
           calls1 == Ending(calls, c, ts)
           open1 == live \ {c}
<1>1. log \in TraceLog /\ calls \in CallLog /\ live \in SUBSET DOMAIN calls /\ c \in DOMAIN calls
  BY DEF RunFits
<1>2. tool \in TimedTools /\ calls[c].start \in Nat /\ calls[c].start <= Clock(log)
  BY <1>1, CallLogFacts DEF RunFits
<1>3. e \in TraceEvents /\ e.type = type /\ e.tool = tool /\ e.ts = ts
  BY <1>2 DEF Event, TraceEvents, CallEvents, CallTypes
<1>4. Clock(log) \in Nat /\ Clock(log1) = ts /\ log1 \in TraceLog /\ log1 # <<>>
  BY <1>1, <1>3, ClockAppend
<1>5. calls[c].start <= ts
  BY <1>2, <1>4
<1>6. Times0(log) \in Readings /\ Times0(log1) = M!Read(Times0(log), e)
  BY <1>1, <1>3, ToolTimesAppend, ToolTimesTyped
<1> HIDE DEF e
<1> DEFINE starts == Times0(log).starts
           buckets == Times0(log).buckets
           starts1 == Times0(log1).starts
           buckets1 == Times0(log1).buckets
<1>7. starts \in [TimedTools -> Times] /\ buckets \in [TimedTools -> Buckets]
  BY <1>6 DEF Readings
<1>8. /\ Times0(log1) \in Readings
      /\ \A t \in TimedTools \ {tool} : starts1[t] = starts[t] /\ buckets1[t] = buckets[t]
      /\ starts[tool] # <<>> =>
           /\ starts1[tool] = Tail(starts[tool])
           /\ buckets1[tool].count = buckets[tool].count + 1
           /\ buckets1[tool].total = buckets[tool].total + ts - Head(starts[tool])
           /\ buckets1[tool].max = M!Max2(buckets[tool].max, ts - Head(starts[tool]))
  <2> DEFINE seen == Times0(log) next == M!Read(seen, e)
  <2>1. seen \in Readings /\ Times0(log1) = next
    BY <1>6
  <2> HIDE DEF seen
  <2>2. /\ next \in Readings
        /\ \A t \in TimedTools \ {e.tool} :
             next.starts[t] = seen.starts[t] /\ next.buckets[t] = seen.buckets[t]
        /\ seen.starts[e.tool] # <<>> =>
             /\ next.starts[e.tool] = Tail(seen.starts[e.tool])
             /\ next.buckets[e.tool].count = seen.buckets[e.tool].count + 1
             /\ next.buckets[e.tool].total = seen.buckets[e.tool].total + e.ts - Head(seen.starts[e.tool])
             /\ next.buckets[e.tool].max = M!Max2(seen.buckets[e.tool].max, e.ts - Head(seen.starts[e.tool]))
    BY <1>3, <2>1, ReadSettled
  <2> HIDE DEF next, log1, tool
  <2> QED
    BY <1>3, <2>1, <2>2 DEF seen
<1>9. buckets1 \in [TimedTools -> Buckets]
  BY <1>8 DEF Readings
<1>10. /\ calls1 \in CallLog /\ DOMAIN calls1 = DOMAIN calls
       /\ \A d \in DOMAIN calls : calls1[d].start = calls[d].start
  BY <1>1, <1>5, EndedCall
<1> HIDE DEF log1, calls1, starts, buckets, starts1, buckets1, tool
<1>11. ASSUME NEW t \in TimedTools
       PROVE  Counts(calls1, open1, t, starts1[t], buckets1[t], ts)
  <2>1. Counts(calls, live, t, starts[t], buckets[t], Clock(log))
    BY DEF RunFits, ToolsFit, starts, buckets
  <2>2. starts[t] \in Times /\ buckets[t] \in Buckets /\ buckets1[t] \in Buckets
    BY <1>7, <1>9
  <2>3. CASE t = tool
    <3>1. /\ starts[t] # <<>>
          /\ \A bucket1 \in Buckets :
               /\ bucket1.count = buckets[t].count + 1
               /\ bucket1.total = buckets[t].total + ts - Head(starts[t])
               /\ bucket1.max = M!Max2(buckets[t].max, ts - Head(starts[t]))
               => Counts(calls1, open1, t, Tail(starts[t]), bucket1, ts)
      BY <1>1, <1>4, <1>5, <2>1, <2>2, <2>3, CountsSettle DEF calls1, tool
    <3>2. /\ starts1[t] = Tail(starts[t])
          /\ buckets1[t].count = buckets[t].count + 1
          /\ buckets1[t].total = buckets[t].total + ts - Head(starts[t])
          /\ buckets1[t].max = M!Max2(buckets[t].max, ts - Head(starts[t]))
      BY <1>8, <2>3, <3>1
    <3> QED
      BY <2>2, <3>1, <3>2
  <2>4. CASE t # tool
    <3>1. starts1[t] = starts[t] /\ buckets1[t] = buckets[t]
      BY <1>8, <2>4
    <3>2. Counts(calls1, open1, t, starts[t], buckets[t], ts)
      BY <1>1, <1>4, <1>5, <2>1, <2>2, <2>4, CountsSettleElsewhere DEF calls1, tool
    <3> QED
      BY <3>1, <3>2
  <2> QED
    BY <2>3, <2>4
<1>12. ToolsFit(log1, calls1, open1)
  BY <1>4, <1>11 DEF ToolsFit, starts1, buckets1
<1>13. FailureFits(log1)
  BY <1>1, <1>3, FailureFitsAppend DEF RunFits, log1
<1>14. PlanningFits(log1)
  BY <1>1, <1>3, PlanningFitsAppend DEF RunFits, PlanTypes, log1
<1>15. \A d \in DOMAIN calls1 : calls1[d].start <= ts
  <2>1. \A d \in DOMAIN calls : calls[d].start <= Clock(log) /\ calls[d].start \in Nat
    BY <1>1, CallLogFacts DEF RunFits
  <2> QED
    BY <1>4, <1>10, <2>1
<1>16. open1 \in SUBSET DOMAIN calls1
  BY <1>1, <1>10
<1> HIDE DEF open1
<1>17. RunFits(log1, calls1, open1)
  BY <1>4, <1>10, <1>12, <1>13, <1>14, <1>15, <1>16 DEF RunFits
<1> QED
  BY <1>17 DEF log1, calls1, open1, e, tool

-----------------------------------------------------------------------------
(* Measurements are true. *)

LEMMA TimesTrue ==
  ASSUME RunFits(trace, toolCalls, underWay)
  PROVE  TimesAreTrue
<1> DEFINE seen == M!ToolTimes(trace, TimedTools)
<1>1. trace \in TraceLog /\ toolCalls \in CallLog /\ underWay \in SUBSET DOMAIN toolCalls
  BY DEF RunFits
<1>2. seen = Times0(trace) /\ seen \in Readings
  BY <1>1, ToolTimesTyped DEF Times0
<1> HIDE DEF seen
<1>3. ASSUME NEW tool \in TimedTools
      PROVE  /\ seen.buckets[tool].count = Cardinality(CallsOf(tool) \ underWay)
             /\ seen.buckets[tool].total >= M!Total(TrueTimes(tool))
             /\ CallsOf(tool) \cap underWay = {} =>
                  /\ seen.buckets[tool].total = M!Total(TrueTimes(tool))
                  /\ CallsOf(tool) # {} =>
                       \E c \in CallsOf(tool) : seen.buckets[tool].max <= TrueTime(c)
  <2> DEFINE mine == OfTool(toolCalls, tool)
             bucket == seen.buckets[tool]
             starts == seen.starts[tool]
             T == TrueTimes(tool)
  <2>1. CallsOf(tool) = mine
    BY DEF CallsOf, OfTool
  <2>2. Counts(toolCalls, underWay, tool, starts, bucket, Clock(trace))
    BY <1>2 DEF RunFits, ToolsFit
  <2>3. starts \in Times /\ bucket \in Buckets
    BY <1>2 DEF Readings
  <2>4. mine \in SUBSET DOMAIN toolCalls /\ mine \cap underWay \in SUBSET DOMAIN toolCalls
    BY <1>1, OfToolFinite
  <2> HIDE DEF starts, bucket
  <2>5. PICK place : /\ Matching(toolCalls, mine \cap underWay, starts, place)
                     /\ bucket.total = M!Total(Weights(toolCalls, mine, mine \cap underWay, starts, place))
    BY <2>2 DEF Counts
  <2> DEFINE W == Weights(toolCalls, mine, mine \cap underWay, starts, place)
  <2>6. W \in Times
    BY <1>1, <2>3, <2>4, <2>5, WeightsTyped
  <2>7. \A c \in DOMAIN toolCalls :
          /\ W[c] = IF c \in mine \cap underWay THEN starts[place[c]] - toolCalls[c].start
                    ELSE IF c \in mine THEN toolCalls[c].end - toolCalls[c].start ELSE 0
          /\ T[c] = IF c \in mine \ underWay THEN toolCalls[c].end - toolCalls[c].start ELSE 0
    BY <2>1 DEF Weights, TrueTimes, TrueTime
  <2>8. /\ DOMAIN W = DOMAIN toolCalls /\ DOMAIN T = DOMAIN toolCalls
        /\ T = [c \in DOMAIN toolCalls |-> T[c]] /\ W = [c \in DOMAIN toolCalls |-> W[c]]
    BY DEF Weights, TrueTimes
  <2> HIDE DEF T, W
  <2>9. /\ Len(toolCalls) \in Nat /\ DOMAIN toolCalls = 1..Len(toolCalls)
        /\ \A c \in DOMAIN toolCalls : /\ toolCalls[c].start \in Nat /\ toolCalls[c].end \in Nat
                                       /\ toolCalls[c].start <= toolCalls[c].end
    BY <1>1, CallLogFacts
  <2>10. \A c \in DOMAIN toolCalls : W[c] \in Nat
    BY <2>6, <2>8, TimesFacts
  <2>11. \A c \in DOMAIN toolCalls : T[c] \in Nat /\ T[c] <= W[c]
    BY <2>7, <2>9, <2>10
  <2>12. T \in Times /\ Len(T) = Len(toolCalls)
    BY <2>8, <2>9, <2>11, IsTimes
  <2>13. Len(W) = Len(toolCalls)
    <3>1. W \in [1..Len(toolCalls) -> Nat]
      BY <2>8, <2>9, <2>10
    <3> QED
      BY <2>9, <3>1, IsTimes
  <2>14. M!Total(T) <= M!Total(W) /\ M!Total(T) \in Nat /\ M!Total(W) \in Nat
    BY <2>6, <2>9, <2>11, <2>12, <2>13, TotalGrows, TotalTyped
  <2>15. bucket.count = Cardinality(mine \ underWay) /\ bucket.total = M!Total(W)
    BY <2>2, <2>5 DEF Counts, W
  <2>16. ASSUME mine \cap underWay = {} PROVE W = T
    <3>1. \A c \in DOMAIN toolCalls : W[c] = T[c]
      BY <2>7, <2>16
    <3> QED
      BY <2>8, <3>1
  <2>17. ASSUME mine \cap underWay = {}, mine # {} PROVE \E c \in mine : bucket.max <= TrueTime(c)
    <3>1. PICK c \in mine : bucket.max <= Elapsed(toolCalls, underWay, c, Clock(trace))
      BY <2>2, <2>17 DEF Counts
    <3>2. Elapsed(toolCalls, underWay, c, Clock(trace)) = TrueTime(c)
      BY <2>17, <3>1 DEF Elapsed, TrueTime
    <3> QED
      BY <3>1, <3>2
  <2> HIDE DEF mine
  <2>18. bucket.total >= M!Total(T)
    BY <2>14, <2>15
  <2> QED
    BY <2>1, <2>15, <2>16, <2>17, <2>18 DEF bucket, T
<1>4. TimesOfTools(seen)
  BY <1>3 DEF TimesOfTools
<1>5. LastFailure(seen)
  BY <1>2 DEF RunFits, FailureFits, Found, LastFailure
<1>6. TimesOfPlanning(M!Stages(trace))
  BY PlanningIsTrue DEF RunFits, TimesOfPlanning
<1> QED
  BY <1>4, <1>5, <1>6 DEF TimesAreTrue, seen

LEMMA TwoMore ==
  ASSUME NEW log \in TraceLog, NEW a \in TraceEvents, NEW b \in TraceEvents, NEW c \in TraceEvents
  PROVE  /\ log \o <<a, b>> = Append(Append(log, a), b)
         /\ log \o <<a, b, c>> = Append(Append(Append(log, a), b), c)
  BY DEF TraceLog

MeasuredInv == SuitesTyped /\ RunFits(trace, toolCalls, underWay)

LEMMA StartRunKeeps ==
  ASSUME RunFits(trace, toolCalls, underWay),
         NEW plan \in {"valid", "none", "invalid"}, NEW time \in PlanningTimes, StartRun(plan, time)
  PROVE  RunFits(trace, toolCalls, underWay)'
<1>1. toolCalls = <<>> /\ underWay \in SUBSET DOMAIN toolCalls /\ DOMAIN <<>> = {}
  BY DEF RunFits, StartRun
<1>2. trace' = Planned(plan, time) /\ toolCalls' = <<>> /\ underWay' = {}
  BY <1>1 DEF StartRun
<1> QED
  BY <1>2, RunFitsPlanned

LEMMA NowIs ==
  ASSUME trace # <<>>
  PROVE  Now = Clock(trace)
  BY DEF Now, Clock

LEMMA LaterIs ==
  ASSUME RunFits(trace, toolCalls, underWay), trace # <<>>, NEW delay \in Gaps \cup Delays
  PROVE  Now + delay \in Nat /\ Clock(trace) <= Now + delay
<1>1. delay \in Nat
  BY TimesAssumption
<1>2. Clock(trace) \in Nat
  <2>1. Plain("error", 0) \in TraceEvents /\ trace \in TraceLog
    BY DEF RunFits, Plain, Event, TraceEvents, PlainEvents, PlainTypes
  <2> QED
    BY <2>1, ClockAppend
<1> QED
  BY <1>1, <1>2, NowIs

LEMMA StartCallKeeps ==
  ASSUME RunFits(trace, toolCalls, underWay), trace # <<>>,
         NEW tool \in TimedTools, NEW gap \in Gaps, StartCall(tool, Now + gap)
  PROVE  RunFits(trace, toolCalls, underWay)'
<1> DEFINE ts == Now + gap
<1>1. ts \in Nat /\ Clock(trace) <= ts
  BY LaterIs
<1> HIDE DEF ts
<1>2. /\ trace' = Append(trace, Event("tool_start", tool, ts))
      /\ toolCalls' = Append(toolCalls, [tool |-> tool, start |-> ts, end |-> ts])
      /\ underWay' = underWay \cup {Len(toolCalls')}
  BY DEF StartCall, ts
<1>3. Len(toolCalls') = Len(toolCalls) + 1
  <2>1. toolCalls \in Seq(CallRecords)
    BY DEF RunFits, CallLog
  <2> QED
    BY <1>2, <2>1
<1>4. RunFits(Append(trace, Event("tool_start", tool, ts)),
              Append(toolCalls, [tool |-> tool, start |-> ts, end |-> ts]),
              underWay \cup {Len(toolCalls) + 1})
  BY <1>1, RunFitsStart
<1> QED
  BY <1>2, <1>3, <1>4

LEMMA SettleCallKeeps ==
  ASSUME RunFits(trace, toolCalls, underWay), trace # <<>>,
         NEW c \in underWay, NEW type \in {"tool_end", "tool_error"}, NEW delay \in Delays,
         SettleCall(c, type, Now + delay)
  PROVE  RunFits(trace, toolCalls, underWay)'
<1> DEFINE ts == Now + delay
<1>1. ts \in Nat /\ Clock(trace) <= ts
  BY LaterIs
<1> HIDE DEF ts
<1>2. /\ trace' = Append(trace, Event(type, toolCalls[c].tool, ts))
      /\ toolCalls' = Ending(toolCalls, c, ts)
      /\ underWay' = underWay \ {c}
  BY DEF SettleCall, Ending, ts
<1>3. RunFits(Append(trace, Event(type, toolCalls[c].tool, ts)), Ending(toolCalls, c, ts), underWay \ {c})
  BY <1>1, RunFitsSettle
<1> QED
  BY <1>2, <1>3

LEMMA EndRunKeeps ==
  ASSUME RunFits(trace, toolCalls, underWay), trace # <<>>, NEW delay \in Delays, EndRun(Now + delay)
  PROVE  RunFits(trace, toolCalls, underWay)'
<1> DEFINE ts == Now + delay
<1>1. ts \in Nat /\ Clock(trace) <= ts
  BY LaterIs
<1> HIDE DEF ts
<1> DEFINE a == Plain("error", ts)
           b == Plain("run_end", ts)
           c == Plain("reflector_call", ts)
           d == Plain("finalizer_call", ts)
           e == Plain("run_end", ts + 1)
<1>2. /\ a \in TraceEvents /\ b \in TraceEvents /\ c \in TraceEvents /\ d \in TraceEvents
      /\ e \in TraceEvents
      /\ a.type = "error" /\ b.type = "run_end" /\ c.type = "reflector_call"
      /\ d.type = "finalizer_call" /\ e.type = "run_end"
      /\ a.ts = ts /\ b.ts = ts /\ c.ts = ts /\ d.ts = ts /\ e.ts = ts + 1
  <2>1. ts + 1 \in Nat
    BY <1>1
  <2> QED
    BY <1>1, <2>1 DEF Plain, Event, TraceEvents, PlainEvents, PlainTypes
<1>3. {"error", "run_end", "reflector_call", "finalizer_call"} \subseteq PlainTypes \ PlanTypes
  BY DEF PlainTypes, PlanTypes
<1>4. /\ \/ trace' = trace \o <<a, b>>
         \/ trace' = trace \o <<c, d, e>>
      /\ toolCalls' = toolCalls /\ underWay' = underWay
  BY DEF EndRun, ts
<1> HIDE DEF a, b, c, d, e
<1>5. trace \in TraceLog
  BY DEF RunFits
<1>6. CASE trace' = trace \o <<a, b>>
  <2>1. trace' = Append(Append(trace, a), b)
    BY <1>2, <1>5, <1>6, TwoMore
  <2>2. RunFits(Append(trace, a), toolCalls, underWay)
    BY <1>1, <1>2, <1>3, RunFitsPlain
  <2>3. /\ Append(trace, a) # <<>> /\ Clock(Append(trace, a)) = ts
    BY <1>2, <1>5, ClockAppend
  <2>4. Clock(Append(trace, a)) <= b.ts
    BY <1>1, <1>2, <2>3
  <2>5. RunFits(Append(Append(trace, a), b), toolCalls, underWay)
    BY <1>2, <1>3, <2>2, <2>3, <2>4, RunFitsPlain
  <2> QED
    BY <1>4, <2>1, <2>5
<1>7. CASE trace' = trace \o <<c, d, e>>
  <2>1. trace' = Append(Append(Append(trace, c), d), e)
    BY <1>2, <1>5, <1>7, TwoMore
  <2>2. RunFits(Append(trace, c), toolCalls, underWay)
    BY <1>1, <1>2, <1>3, RunFitsPlain
  <2>3. /\ Append(trace, c) \in TraceLog /\ Append(trace, c) # <<>> /\ Clock(Append(trace, c)) = ts
    BY <1>2, <1>5, ClockAppend
  <2>4. Clock(Append(trace, c)) <= d.ts
    BY <1>1, <1>2, <2>3
  <2>5. RunFits(Append(Append(trace, c), d), toolCalls, underWay)
    BY <1>2, <1>3, <2>2, <2>3, <2>4, RunFitsPlain
  <2>6. Append(Append(trace, c), d) # <<>> /\ Clock(Append(Append(trace, c), d)) = ts
    BY <1>2, <2>3, ClockAppend
  <2>7. Clock(Append(Append(trace, c), d)) <= e.ts
    BY <1>1, <1>2, <2>6
  <2>8. RunFits(Append(Append(Append(trace, c), d), e), toolCalls, underWay)
    BY <1>2, <1>3, <2>5, <2>6, <2>7, RunFitsPlain
  <2> QED
    BY <1>4, <2>1, <2>8
<1> QED
  BY <1>4, <1>6, <1>7

LEMMA MeasuredStep == MeasuredInv /\ [MeasuredNext]_measuredVars => MeasuredInv'
<1> SUFFICES ASSUME MeasuredInv, [MeasuredNext]_measuredVars PROVE MeasuredInv'
  OBVIOUS
<1> USE DEF MeasuredInv
<1>1. CASE UNCHANGED measuredVars
  BY <1>1 DEF measuredVars, runVars, SuitesTyped
<1>2. ASSUME NEW scenario \in Scenarios, NEW opens \in BOOLEAN, AddScenario(scenario, opens)
      PROVE  MeasuredInv'
  <2>1. trace' = trace /\ toolCalls' = toolCalls /\ underWay' = underWay
    BY <1>2 DEF AddScenario, runVars
  <2> QED
    BY <1>2, <2>1, SuitesTypedKeeps
<1>3. ASSUME RunNext PROVE MeasuredInv'
  <2>1. suites' = suites
    BY <1>3 DEF RunNext, StartRun, StartCall, SettleCall, EndRun
  <2>2. RunFits(trace, toolCalls, underWay)'
    BY <1>3, StartRunKeeps, StartCallKeeps, SettleCallKeeps, EndRunKeeps DEF RunNext
  <2> QED
    BY <2>1, <2>2 DEF SuitesTyped
<1> QED
  BY <1>1, <1>2, <1>3 DEF MeasuredNext

(***************************************************************************)
(* The measurements of advisors and of runs are true: evaluations count    *)
(* the answers of the model only, recommend no model that is slower than   *)
(* allowed, and the summary of a run's trace has the times of its calls,   *)
(* however they overlap, although an event does not say which call it is   *)
(* about.                                                                  *)
(***************************************************************************)
THEOREM MeasurementsStayTrue == MeasuredSpec => []MeasurementsAreTrue
<1>1. MeasuredInit => MeasuredInv
  BY RunFitsEmpty DEF MeasuredInit, MeasuredInv, SuitesTyped
<1>2. MeasuredInv => MeasurementsAreTrue
  BY Evaluated, TimesTrue DEF MeasuredInv, MeasurementsAreTrue
<1> QED
  BY <1>1, <1>2, MeasuredStep, PTL DEF MeasuredSpec
=============================================================================
