----------------------------- MODULE PromptLab -----------------------------
(***************************************************************************)
(* Prompt lab sessions: src/prompt-lab/product.ts, files.ts and cli.ts,    *)
(* with what a session shares with others: the files of the output root,   *)
(* the environment and the diagnostic listeners of the process             *)
(* (diagnostics/logger.ts) and the cache of resources (resources/loader.ts)*)
(*                                                                         *)
(* A call is one session from its first file to its end: main() of the     *)
(* command line ("cli"), runRequirement on its own ("run") or the          *)
(* evaluation of the advisors ("eval"); "note" is a main() that stops once *)
(* the requirement is in the history.  Its steps are split at the awaits.  A process   *)
(* may die between any two of them.  A file is written in two steps, as    *)
(* writeFile does: it is emptied when it is opened and has its text later. *)
(***************************************************************************)
EXTENDS Naturals, Sequences, FiniteSets

CONSTANTS
  Calls, Processes,
  Home,          \* the process of a call
  Kind,          \* "cli", "run", "eval" or "note"
  Requirement,   \* the requirement of a call, a number; it names its models as well
  MaxHistory,    \* MAX_REQUIREMENT_HISTORY and MAX_ADVISOR_EVAL_HISTORY
  Before,        \* what the histories hold at first
  Groups,        \* bound: the calls made are those of one of these sets
  MaxFaults,     \* bound: so many processes die or writes fail
  Torn,          \* the text of a file that was opened and not written yet
  None

ASSUME CallsAssumption ==
  /\ IsFiniteSet(Calls)
  /\ Home \in [Calls -> Processes]
  /\ Kind \in [Calls -> {"cli", "run", "eval", "note"}]
  /\ Requirement \in [Calls -> Nat]

\* The histories were written by earlier calls.
ASSUME HistoryAssumption ==
  /\ MaxHistory \in Nat \ {0}
  /\ Before \in Seq(Nat) /\ Len(Before) <= MaxHistory
  /\ \A i, j \in DOMAIN Before : Before[i] = Before[j] => i = j

ASSUME ValuesAssumption ==
  /\ None \notin Nat /\ None \notin Nat \X Nat
  /\ None \notin {"good", "bad", "completed", "failed"}
  /\ Torn \notin Seq(Nat) /\ Torn \notin Nat \X Nat

OldSession == <<0, 0>>   \* a session from before
Original == 0              \* what the environment holds outside of a run

VARIABLES
  clock,       \* Date.now() in milliseconds
  phase,       \* where a call is
  dir,         \* its session directory: the time and the slug
  todo,        \* the files it still writes in this phase
  open,        \* whether it has opened the first of them
  read,        \* the history it read
  saved,       \* previousRuntimeProvider, ...MainModel, ...LiteModel
  flow,        \* the status of its flow run
  loaded,      \* what its load of a resource gave
  env,         \* per process: FLOW_RUNTIME_PROVIDER, ..._MAIN_MODEL, ..._LITE_MODEL
  listeners,   \* per process: the diagnostic listeners, <<owner, call>>
  cache,       \* per process: resourceCache, the promise of one resource
  lastRun,     \* prompt-lab-last-run.json
  histories,   \* prompt-lab-history.json, advisor-evaluation-history.json
  files,       \* per directory: the files that are torn and whole
  models,      \* ghost: the configuration the flow of a call on its own had its models from
  recorded,    \* ghost: the calls whose sessions were created
  earlier,     \* ghost: those that were when a call began to create its own
  overlapped,  \* ghost: the calls that ran while another one of the process ran
  used,        \* ghost: the entries recorded so far, the latest first
  disturbed,   \* ghost: the histories torn or written from a stale read
  faults

call == <<phase, dir, todo, open, read, saved, flow, loaded>>
process == <<env, listeners, cache>>
disk == <<lastRun, histories, files>>
ghosts == <<models, recorded, earlier, overlapped, used, disturbed>>
vars == <<clock, call, process, disk, ghosts, faults>>

Histories == {"requirements", "evaluations"}
HistoryOf(c) == IF Kind[c] = "eval" THEN "evaluations" ELSE "requirements"

Ended == {"rejected", "failed", "returned", "stopped", "done", "dead"}
Running == {"flow", "planning", "executing", "assessing", "loading", "saving", "reporting"}
\* The phases whose errors runRequirement and runAdvisorEvaluation catch.
Guarded == {"saving", "evaluated", "recording", "closing"}

Active(p) == {c \in Calls : Home[c] = p /\ Kind[c] # "eval" /\ phase[c] \in Running}

\* A name stands for the files written one after the other with no step between:
\* "designs" for the flow, the brief and the review, "prompt" for the summary too.
Results == <<"result", "designs">>
\* Mutant: the paths are written before the report.
FailuresLast == <<"artifacts", "failure">>
Failures == <<"failure", "artifacts">>
Prompts == <<"prompt", "artifacts">>
Evaluation == <<"evaluation">>

NoFiles == [torn |-> {}, whole |-> {}]

(***************************************************************************)
(* A history with the new entry first and without its older occurrence,    *)
(* cut to its bound (files.ts:171-184, 225-243).                           *)
(***************************************************************************)
\* Mutant: the older occurrence stays.
RecordWithDuplicate(entry, history) ==
  SubSeq(<<entry>> \o history, 1,
         IF Len(history) < MaxHistory THEN Len(history) + 1 ELSE MaxHistory)

Others(entry, history) ==
  LET kept[i \in 0..Len(history)] ==
        IF i = 0 THEN <<>>
        ELSE IF history[i] = entry THEN kept[i - 1] ELSE Append(kept[i - 1], history[i])
  IN  kept[Len(history)]

Record(entry, history) ==
  LET all == <<entry>> \o Others(entry, history)
  IN  SubSeq(all, 1, IF Len(all) < MaxHistory THEN Len(all) ELSE MaxHistory)

Readable(content) == IF content = Torn THEN <<>> ELSE content

Newer(d, e) == d[1] > e[1] \/ (d[1] = e[1] /\ d[2] > e[2])

Complete == {d \in DOMAIN files : "session" \in files[d].whole}

(***************************************************************************)
(* readPromptLabLastRun: the recorded session, or the one of the directory *)
(* last in the order of names whose session file is readable.              *)
(***************************************************************************)
\* Mutant: only the newest directory is tried.
LastSessionOfNewest ==
  IF lastRun \notin {Torn, None} THEN lastRun
  ELSE IF \E d \in Complete : \A e \in DOMAIN files : e = d \/ Newer(d, e)
    THEN CHOOSE d \in Complete : \A e \in DOMAIN files : e = d \/ Newer(d, e)
    ELSE None

LastSession ==
  CASE lastRun \notin {Torn, None} -> lastRun
    [] lastRun \in {Torn, None} /\ Complete # {} ->
         CHOOSE d \in Complete : \A e \in Complete : e = d \/ Newer(d, e)
    [] OTHER -> None

Init ==
  /\ clock = 1
  /\ phase = [c \in Calls |-> "idle"]
  /\ dir = [c \in Calls |-> None]
  /\ todo = [c \in Calls |-> <<>>]
  /\ open = [c \in Calls |-> FALSE]
  /\ read = [c \in Calls |-> <<>>]
  /\ saved = [c \in Calls |-> None]
  /\ flow = [c \in Calls |-> None]
  /\ loaded = [c \in Calls |-> None]
  /\ env = [p \in Processes |-> Original]
  /\ listeners = [p \in Processes |-> {}]
  /\ cache = [p \in Processes |-> "absent"]
  /\ lastRun = OldSession
  /\ histories = [h \in Histories |-> Before]
  /\ files = [d \in {OldSession} |-> [torn |-> {}, whole |-> {"session"}]]
  /\ models = [c \in Calls |-> None]
  /\ recorded = {}
  /\ earlier = [c \in Calls |-> {}]
  /\ overlapped = {}
  /\ used = [h \in Histories |-> Before]
  /\ disturbed = {}
  /\ faults = 0

-----------------------------------------------------------------------------
(* Writing the files of a phase *)

Go(c, next, paths) ==
  /\ phase' = [phase EXCEPT ![c] = next]
  /\ todo' = [todo EXCEPT ![c] = paths]
  /\ open' = [open EXCEPT ![c] = FALSE]

\* A call begins.
Begins(c) ==
  /\ phase[c] = "idle"
  /\ \E g \in Groups : {b \in Calls : b = c \/ phase[b] # "idle"} \subseteq g

Ready(c, where) == phase[c] = where /\ todo[c] = <<>>

Entry(c, path) == IF path = "requirements" THEN Requirement[c] ELSE dir[c][1]

\* The text of a file of the output root; a session's file is torn or whole.
Place(c, path, torn) ==
  CASE path = "last" ->
         lastRun' = (IF torn THEN Torn ELSE dir[c]) /\ UNCHANGED <<histories, files>>
    [] path \in Histories ->
         /\ histories' = [histories EXCEPT ![path] =
              IF torn THEN Torn ELSE Record(Entry(c, path), read[c])]
         /\ UNCHANGED <<lastRun, files>>
    [] OTHER ->
         LET f == files[dir[c]]
         IN  /\ files' = [files EXCEPT ![dir[c]] =
                  IF torn THEN [torn |-> f.torn \cup {path}, whole |-> f.whole \ {path}]
                  ELSE [torn |-> f.torn \ {path}, whole |-> f.whole \cup {path}]]
             /\ UNCHANGED <<lastRun, histories>>

IsTorn(c, path) ==
  CASE path = "last" -> lastRun = Torn
    [] path \in Histories -> histories[path] = Torn
    [] OTHER -> path \in files[dir[c]].torn

Open(c) ==
  LET path == Head(todo[c])
  IN  /\ phase[c] \notin Ended /\ todo[c] # <<>> /\ ~open[c]
      /\ open' = [open EXCEPT ![c] = TRUE]
      /\ Place(c, path, TRUE)
      /\ disturbed' = IF path \in Histories /\ histories[path] # read[c]
                        THEN disturbed \cup {path} ELSE disturbed
      /\ UNCHANGED <<clock, phase, dir, todo, read, saved, flow, loaded, process,
                     models, recorded, earlier, overlapped, used, faults>>

\* Two writers that opened the same file leave the text of one or a mixture.
Write(c) ==
  LET path == Head(todo[c])
  IN  /\ todo[c] # <<>> /\ open[c]
      /\ \/ Place(c, path, FALSE)
         \/ ~IsTorn(c, path) /\ Place(c, path, TRUE)
      /\ used' = [h \in Histories |->
           IF h = path THEN <<Entry(c, h)>> \o Others(Entry(c, h), used[h]) ELSE used[h]]
      /\ disturbed' = IF path \in Histories /\ ~IsTorn(c, path)
                        THEN disturbed \cup {path} ELSE disturbed
      /\ open' = [open EXCEPT ![c] = FALSE]
      /\ todo' = [todo EXCEPT ![c] = Tail(@)]
      /\ recorded' = IF phase[c] = "creating" /\ Len(todo[c]) = 1
                       THEN recorded \cup {c} ELSE recorded
      /\ UNCHANGED <<clock, phase, dir, read, saved, flow, loaded, process,
                     models, earlier, overlapped, faults>>

-----------------------------------------------------------------------------
(* The end of a run *)

\* Mutant: the listener is removed, the environment stays.
ReleaseListenerOnly(c) ==
  /\ listeners' = [listeners EXCEPT ![Home[c]] = @ \ {<<"lab", c>>}]
  /\ UNCHANGED <<env, saved>>

\* The finally block of runRequirement; an evaluation changes neither.
Release(c) ==
  IF Kind[c] = "eval" THEN UNCHANGED <<env, listeners, saved>>
  ELSE /\ env' = [env EXCEPT ![Home[c]] = saved[c]]
       /\ saved' = [saved EXCEPT ![c] = None]
       /\ listeners' = [listeners EXCEPT ![Home[c]] = @ \ {<<"lab", c>>}]

\* The catch blocks: the error is reported by files and thrown again.
Fail(c) == Go(c, "reporting", Failures)

\* An open or a write that fails is caught in some phases and ends the call in others.
WriteFails(c) ==
  /\ faults < MaxFaults
  /\ faults' = faults + 1
  /\ phase[c] \notin Ended /\ todo[c] # <<>>
  /\ IF phase[c] \in Guarded THEN Fail(c) ELSE Go(c, "rejected", <<>>)
  /\ IF phase[c] = "reporting" THEN Release(c) ELSE UNCHANGED <<env, listeners, saved>>
  /\ disturbed' = IF open[c] THEN disturbed \cup (Histories \cap {Head(todo[c])})
                             ELSE disturbed
  /\ UNCHANGED <<clock, dir, read, flow, loaded, cache, disk,
                 models, recorded, earlier, overlapped, used>>

Reported(c) ==
  /\ Ready(c, "reporting")
  /\ Go(c, "failed", <<>>)
  /\ Release(c)
  /\ UNCHANGED <<clock, dir, read, flow, loaded, cache, disk, ghosts, faults>>

-----------------------------------------------------------------------------
(* The session *)

\* readPromptLabRequirementHistory, readPromptLabAdvisorEvaluationHistory.
ReadHistory(c) ==
  /\ \/ Kind[c] \in {"cli", "note"} /\ Begins(c) /\ Go(c, "caching", <<"requirements">>)
     \/ Ready(c, "evaluated") /\ Go(c, "recording", <<"evaluations">>)
  /\ read' = [read EXCEPT ![c] = Readable(histories[HistoryOf(c)])]
  /\ UNCHANGED <<clock, dir, saved, flow, loaded, process, disk, ghosts, faults>>

\* createPromptLabSession: sessions of one millisecond share a directory.
Create(c) ==
  /\ IF Kind[c] = "cli" THEN Ready(c, "caching") ELSE Kind[c] # "note" /\ Begins(c)
  /\ \E tick \in IF dir = [b \in Calls |-> None] THEN {0} ELSE {0, 1} :
       LET d == <<clock + tick, Requirement[c]>>
       IN  /\ clock' = clock + tick
           /\ dir' = [dir EXCEPT ![c] = d]
           /\ files' = [e \in DOMAIN files \cup {d} |->
                          IF e \in DOMAIN files THEN files[e] ELSE NoFiles]
  /\ Go(c, "creating", <<"session", "last">>)
  /\ earlier' = [earlier EXCEPT ![c] = recorded]
  /\ UNCHANGED <<read, saved, flow, loaded, process, lastRun, histories,
                 models, recorded, overlapped, used, disturbed, faults>>

\* The head of runRequirement: the skill, the environment, the gateway and the
\* listener; a missing skill and a provider that is not configured throw.
Enter(c) ==
  LET p == Home[c]
      others == Active(p)
  IN  /\ Ready(c, "creating") /\ Kind[c] # "eval"
      /\ saved' = [saved EXCEPT ![c] = env[p]]
      /\ overlapped' = IF others = {} THEN overlapped ELSE overlapped \cup others \cup {c}
      /\ \/ Fail(c) /\ UNCHANGED <<env, listeners>>
         \/ /\ env' = [env EXCEPT ![p] = Requirement[c]]
            /\ Fail(c)
            /\ UNCHANGED listeners
         \/ /\ env' = [env EXCEPT ![p] = Requirement[c]]
            /\ listeners' = [listeners EXCEPT ![p] = @ \cup {<<"lab", c>>}]
            /\ Go(c, "flow", <<>>)
      /\ UNCHANGED <<clock, dir, read, flow, loaded, cache, disk,
                     models, recorded, earlier, used, disturbed, faults>>

\* AgentRuntime.startRun adds its own listener before its try block.
StartFlow(c) ==
  /\ phase[c] = "flow"
  /\ Go(c, "planning", <<>>)
  /\ listeners' = [listeners EXCEPT ![Home[c]] = @ \cup {<<"runtime", c>>}]
  /\ UNCHANGED <<clock, dir, read, saved, flow, loaded, env, cache, disk, ghosts, faults>>

\* The brief, the plan or the save throws, or the run enters its try block.
PlanFlow(c) ==
  /\ phase[c] = "planning"
  /\ Fail(c) \/ Go(c, "executing", <<>>)
  /\ UNCHANGED <<clock, dir, read, saved, flow, loaded, process, disk, ghosts, faults>>

\* The draft's models are those of the environment (resolveRuntimeModelAlias).
EndFlow(c) ==
  /\ phase[c] = "executing"
  /\ listeners' = [listeners EXCEPT ![Home[c]] = @ \ {<<"runtime", c>>}]
  /\ \/ Fail(c) /\ UNCHANGED flow
     \/ /\ Go(c, "assessing", <<>>)
        /\ \E status \in {"completed", "failed"} : flow' = [flow EXCEPT ![c] = status]
  /\ models' = [models EXCEPT ![c] = IF c \in overlapped THEN @ ELSE env[Home[c]]]
  /\ UNCHANGED <<clock, dir, read, saved, loaded, env, cache, disk,
                 recorded, earlier, overlapped, used, disturbed, faults>>

-----------------------------------------------------------------------------
(* Resources *)

\* Mutant: every load reads the file.
LoadUncached(c) ==
  /\ phase[c] \in {"assessing", "evaluating"}
  /\ cache' = [cache EXCEPT ![Home[c]] = "reading"]

\* loadResource: the promise is in the cache before the file is read.
LoadCached(c) ==
  /\ phase[c] \in {"assessing", "evaluating"}
  /\ cache' = [cache EXCEPT ![Home[c]] = IF @ = "absent" THEN "reading" ELSE @]

Load(c) ==
  /\ LoadCached(c)
  /\ Go(c, IF Kind[c] = "eval" THEN "comparing" ELSE "loading", <<>>)
  /\ UNCHANGED <<clock, dir, read, saved, flow, loaded, env, listeners, disk, ghosts, faults>>

\* A promise keeps what it settled with, an error as well.
ReadSettles(p) ==
  /\ cache[p] = "reading"
  /\ \E outcome \in {"good", "bad"} : cache' = [cache EXCEPT ![p] = outcome]
  /\ UNCHANGED <<clock, call, env, listeners, disk, ghosts, faults>>

\* Assessing the result goes on with the resource; the results are then written.
Assess(c) ==
  /\ phase[c] = "loading" /\ cache[Home[c]] \in {"good", "bad"}
  /\ loaded' = [loaded EXCEPT ![c] = cache[Home[c]]]
  /\ IF cache[Home[c]] = "good" THEN Go(c, "saving", Results) \/ Fail(c) ELSE Fail(c)
  /\ UNCHANGED <<clock, dir, read, saved, flow, process, disk, ghosts, faults>>

-----------------------------------------------------------------------------
(* After the run *)

Return(c) ==
  /\ Ready(c, "saving")
  /\ IF Kind[c] = "cli" THEN Go(c, "showing", <<"flowText">>) ELSE Go(c, "returned", <<>>)
  /\ Release(c)
  /\ UNCHANGED <<clock, dir, read, flow, loaded, cache, disk, ghosts, faults>>

\* createSelfReview: a failed run is reviewed without the gateway.
Review(c) ==
  /\ Ready(c, "showing")
  /\ \/ Go(c, "reviewing", <<"selfReview">>)
     \/ flow[c] # "failed" /\ Go(c, "rejected", <<>>)
  /\ UNCHANGED <<clock, dir, read, saved, flow, loaded, process, disk, ghosts, faults>>

\* The policy of --auto may stop before the prompt; finalizeSession.
Finalize(c) ==
  /\ Ready(c, "reviewing")
  /\ \/ Go(c, "finalizing", <<"feedback">>)
     \/ Go(c, "stopped", <<>>)
  /\ UNCHANGED <<clock, dir, read, saved, flow, loaded, process, disk, ghosts, faults>>

\* The prompt, rewritten when it looks like code; either request may throw.
Prompt(c) ==
  /\ Ready(c, "finalizing")
  /\ Go(c, "prompting", Prompts) \/ Go(c, "rejected", <<>>)
  /\ UNCHANGED <<clock, dir, read, saved, flow, loaded, process, disk, ghosts, faults>>

Finish(c) ==
  /\ Ready(c, "prompting") \/ Ready(c, "closing")
  /\ Go(c, "done", <<>>)
  /\ UNCHANGED <<clock, dir, read, saved, flow, loaded, process, disk, ghosts, faults>>

-----------------------------------------------------------------------------
(* runAdvisorEvaluation *)

Evaluate(c) ==
  /\ \/ /\ Ready(c, "creating") /\ Kind[c] = "eval"
        /\ Go(c, "evaluating", <<>>) \/ Fail(c)
        /\ UNCHANGED loaded
     \/ /\ phase[c] = "comparing" /\ cache[Home[c]] \in {"good", "bad"}
        /\ loaded' = [loaded EXCEPT ![c] = cache[Home[c]]]
        /\ IF cache[Home[c]] = "good" THEN Go(c, "evaluated", Evaluation) \/ Fail(c)
                                      ELSE Fail(c)
     \/ Ready(c, "recording") /\ Go(c, "closing", <<"artifacts">>) /\ UNCHANGED loaded
  /\ UNCHANGED <<clock, dir, read, saved, flow, process, disk, ghosts, faults>>

-----------------------------------------------------------------------------
\* A process dies; the next call of its home runs in a new one.
Crash(p) ==
  /\ faults < MaxFaults
  /\ \E c \in Calls : Home[c] = p /\ phase[c] \notin Ended \cup {"idle"}
  /\ faults' = faults + 1
  /\ LET dies(c) == Home[c] = p /\ phase[c] \notin Ended \cup {"idle"}
     IN  /\ phase' = [c \in Calls |-> IF dies(c) THEN "dead" ELSE phase[c]]
         /\ todo' = [c \in Calls |-> IF dies(c) THEN <<>> ELSE todo[c]]
         /\ open' = [c \in Calls |-> open[c] /\ ~dies(c)]
         /\ disturbed' = disturbed \cup
              {h \in Histories : \E c \in Calls : dies(c) /\ open[c] /\ Head(todo[c]) = h}
         /\ overlapped' = {c \in overlapped : Home[c] # p}
         /\ models' = [c \in Calls |-> IF Home[c] = p THEN None ELSE models[c]]
  /\ env' = [env EXCEPT ![p] = Original]
  /\ listeners' = [listeners EXCEPT ![p] = {}]
  /\ cache' = [cache EXCEPT ![p] = "absent"]
  /\ loaded' = [c \in Calls |-> IF Home[c] = p THEN None ELSE loaded[c]]
  /\ UNCHANGED <<clock, dir, read, saved, flow, disk, recorded, earlier, used>>

Next ==
  \/ \E c \in Calls :
       \/ Open(c) \/ Write(c) \/ WriteFails(c) \/ Reported(c)
       \/ ReadHistory(c) \/ Create(c) \/ Enter(c)
       \/ StartFlow(c) \/ PlanFlow(c) \/ EndFlow(c)
       \/ Load(c) \/ Assess(c)
       \/ Return(c) \/ Review(c) \/ Finalize(c) \/ Prompt(c) \/ Finish(c) \/ Evaluate(c)
  \/ \E p \in Processes : ReadSettles(p) \/ Crash(p)

Spec == Init /\ [][Next]_vars

-----------------------------------------------------------------------------
OwnDirectory(c) == \A b \in Calls \ {c} : dir[b] # dir[c]

(***************************************************************************)
(* --last finds a session as soon as one was recorded, whichever process   *)
(* died in the middle of which write, and never one that was over before a *)
(* later one began (files.ts:51-123), unless two sessions share a          *)
(* directory.                                                              *)
(***************************************************************************)
LastSessionIsFound ==
  (\A c \in Calls : dir[c] = None \/ OwnDirectory(c)) =>
    /\ LastSession \in DOMAIN files
    /\ \A c \in recorded : LastSession[1] < dir[c][1] =>
         \E b \in Calls : dir[b] = LastSession /\ b \notin earlier[c]

(***************************************************************************)
(* The listeners of a process are those of runs in progress, and of runs   *)
(* whose planning threw (product.ts:1150-1172, runtime.ts:112-165).  Where *)
(* no two runs ever overlapped, a process without a run in progress has    *)
(* its environment back, and every run resolved its models by its own.     *)
(***************************************************************************)
NothingLeaks ==
  \A p \in Processes :
    LET mine == {c \in Calls : Home[c] = p}
        planless == {c \in mine : flow[c] = None}
    IN  /\ listeners[p] \subseteq {"lab", "runtime"} \X mine
        /\ \A c \in mine \ Active(p) :
             <<"lab", c>> \notin listeners[p] /\ (<<"runtime", c>> \in listeners[p] => c \in planless)
        /\ overlapped \cap mine = {} =>
             /\ Active(p) = {} => env[p] = Original
             /\ \A c \in mine : models[c] \in {None, Requirement[c]}

(***************************************************************************)
(* artifacts.json is the last file of a session: whoever finds it finds    *)
(* the failure, the prompt or the evaluation as well.  A session that ended*)
(* well has no report of a failure, one that threw has all of it           *)
(* (product.ts:1128-1149, 1240-1265, 1330-1353).                           *)
(***************************************************************************)
ArtifactsTellTheOutcome ==
  \A c \in Calls : dir[c] # None /\ OwnDirectory(c) =>
    LET f == files[dir[c]]
    IN  /\ "artifacts" \in f.whole =>
             \/ "failure" \in f.whole
             \/ {"result", "selfReview", "feedback", "prompt"} \subseteq f.whole
             \/ "evaluation" \in f.whole
        /\ phase[c] = "returned" => {"result", "designs"} \subseteq f.whole
        /\ phase[c] \in {"returned", "done"} => "failure" \notin f.torn \cup f.whole
        /\ phase[c] = "done" => "artifacts" \in f.whole
        /\ phase[c] = "failed" => {"failure", "artifacts"} \subseteq f.whole

(***************************************************************************)
(* A history has every entry once and at most MaxHistory of them; if no    *)
(* two writers overlapped and none stopped in the middle, it has the ones  *)
(* used last (files.ts:160-186, 217-244).                                  *)
(***************************************************************************)
HistoriesAreRecent ==
  \A h \in Histories : histories[h] # Torn =>
    LET now == histories[h]
    IN  /\ Len(now) <= MaxHistory
        /\ \A i, j \in DOMAIN now : now[i] = now[j] => i = j
        /\ h \notin disturbed =>
             now = SubSeq(used[h], 1, IF Len(used[h]) < MaxHistory THEN Len(used[h]) ELSE MaxHistory)

(***************************************************************************)
(* The calls of one process that needed the resource agree on what they    *)
(* got: one read serves all, and its failure stays (loader.ts:36-102).     *)
(***************************************************************************)
LoadsAgree ==
  \A b, c \in Calls :
    Home[b] = Home[c] /\ loaded[b] # None /\ loaded[c] # None => loaded[b] = loaded[c]
=============================================================================
