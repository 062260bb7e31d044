------------------------------- MODULE RunPage -------------------------------
(***************************************************************************)
(* The pages that start a run and tell its story as the worker streams it: *)
(* the courtroom (Courtroom.tsx: scripted runs, and watching an agent's),  *)
(* the public rail (TryIt.tsx) and the hire page (HireFlow.tsx), over the  *)
(* event bus that keeps each work's history (lib/sse-bus.ts).              *)
(*                                                                         *)
(* The runs of one page share its refs: one stream, one watchdog, one flag *)
(* "running" that guards against a second submit, and one stop() that      *)
(* resets them all.  A continuation of an earlier run (an answer that      *)
(* arrives late) goes through the same refs.  streamLive is left out: it   *)
(* changes with "running".  So is what a page says of its own progress.    *)
(***************************************************************************)
EXTENDS Naturals, Sequences, SequencesExt

CONSTANTS
  Pages,       \* of "courtroom", "try", "hire"
  Stories,     \* what the worker may come to publish about a run
  MaxRuns,     \* bound: runs started on the page
  MaxFaults    \* bound: dropped streams and restarts of the worker

VARIABLES
  page,
  run,      \* the latest run begun, 0 before any; each has a fresh workId
  running,  \* runningRef
  stream,   \* esRef: whose events, its state, and how many have been read
  watchdog, \* watchdogRef: a timer is armed
  flow,     \* where the continuation of each run is
  panel,    \* what the page shows
  history,  \* the bus: events published about each run
  story,    \* events the worker will still publish about it
  faults

pageVars == <<page, run, running, stream, watchdog, flow, panel, history, story, faults>>

Runs == 1 .. MaxRuns
Verdicts == {"pass", "fail", "abstain"}
Events == {"progress", "static_fail", "settled", "error"} \cup Verdicts
NoStream == [of |-> 0, at |-> "closed", read |-> 0]
NoStory == <<"none">>
Awaiting == {"register", "sign", "fund", "dispatch", "post"}

ASSUME PageAssumption ==
  /\ MaxRuns \in Nat \ {0} /\ MaxFaults \in Nat
  /\ Pages \subseteq {"courtroom", "try", "hire"}
  /\ Stories \subseteq Seq(Events)

NoPanel == [steps |-> <<>>, verdict |-> "none", floor |-> FALSE, sawStaticFail |-> FALSE,
            outcome |-> 0]

PageInit ==
  /\ page \in Pages
  /\ run = 0 /\ running = FALSE /\ stream = NoStream /\ watchdog = FALSE
  /\ flow = [r \in Runs |-> "none"] /\ panel = NoPanel
  /\ history = [r \in Runs |-> <<>>] /\ story = [r \in Runs |-> NoStory]
  /\ faults = 0
------------------------------------------------------------------------------
(* A new EventSource closes the one before it and reads from the first     *)
(* event of the history.                                                   *)
Open(r) == stream' = [of |-> r, at |-> "connecting", read |-> 0]

(* stop(): resets the refs, whichever run they serve by now.               *)
Stop == running' = FALSE /\ watchdog' = FALSE /\ stream' = NoStream

Continue(r, at) == flow' = [flow EXCEPT ![r] = at]

Blank == NoPanel

(* begin(), with the guard against a second submit.                        *)
BeginRun(r) ==
  /\ ~running /\ r = run + 1 /\ r \in Runs
  /\ run' = r /\ panel' = Blank
  /\ UNCHANGED <<page, history, story, faults>>

OpenStream(r) == running' = TRUE /\ Open(r) /\ watchdog' = TRUE

(* Courtroom run() and watch().                                            *)
CourtroomRun(r) ==
  /\ page = "courtroom" /\ story[r] = NoStory
  /\ BeginRun(r) /\ OpenStream(r) /\ Continue(r, "connect")

Watch(r) ==
  /\ page = "courtroom" /\ story[r] # NoStory
  /\ BeginRun(r) /\ OpenStream(r) /\ Continue(r, "watch")

(* TryIt run(): a form that does not build starts nothing.                 *)
TryRun(r) ==
  /\ page = "try" /\ BeginRun(r)
  /\ \/ OpenStream(r) /\ Continue(r, "connect")
     \/ Stop /\ Continue(r, "refused")

(* hire(): registers the task first, the stream comes later.               *)
Hire(r) ==
  /\ page = "hire" /\ BeginRun(r)
  /\ running' = TRUE /\ Continue(r, "register")
  /\ UNCHANGED <<stream, watchdog>>

(* An agent outside the page starts the run that will be watched.          *)
AgentRun(r) ==
  /\ page = "courtroom" /\ ~running /\ r = run + 1 /\ r \in Runs /\ story[r] = NoStory
  /\ \E s \in Stories : story' = [story EXCEPT ![r] = s]
  /\ UNCHANGED <<page, run, running, stream, watchdog, flow, panel, history, faults>>

(* Mutant: the bus does not replay, a subscriber gets what comes next.     *)
SubscribeLive(r) == stream' = [stream EXCEPT !.at = "open", !.read = Len(history[r])]

Subscribe(r) == stream' = [stream EXCEPT !.at = "open"]

(* onopen: the page posts its run.                                         *)
Connected ==
  /\ stream.at = "connecting"
  /\ Subscribe(stream.of)
  /\ flow' = [flow EXCEPT ![stream.of] = CASE @ = "connect" -> "post"
                                           [] @ = "watch" -> "done" [] OTHER -> @]
  /\ UNCHANGED <<page, run, running, watchdog, panel, history, story, faults>>

(* /api/demo and /api/try acknowledge and go on in the background, and so  *)
(* does /api/jobs; a request that the proxy gave up on may yet be served.  *)
Serve(r) ==
  /\ flow[r] \in {"post", "dispatch", "unanswered"} /\ story[r] = NoStory
  /\ \E s \in Stories : story' = [story EXCEPT ![r] = s]
  /\ UNCHANGED <<page, run, running, stream, watchdog, flow, panel, history, faults>>

Publish(r) ==
  /\ story[r] \notin {NoStory, <<>>}
  /\ history' = [history EXCEPT ![r] = Append(@, Head(story[r]))]
  /\ story' = [story EXCEPT ![r] = Tail(@)]
  /\ UNCHANGED <<page, run, running, stream, watchdog, flow, panel, faults>>

(* onmessage, and onEvent on the hire page, which tells of no floor.       *)
Shown(r, e) ==
  CASE e = "static_fail" -> [panel EXCEPT !.sawStaticFail = TRUE]
    [] e \in Verdicts -> [panel EXCEPT !.verdict = e,
                                       !.floor = @ \/ (panel.sawStaticFail /\ e # "pass")]
    [] e = "settled" -> [panel EXCEPT !.outcome = r]
    [] OTHER -> panel

HireShown(r, e) ==
  CASE e \in Verdicts -> [panel EXCEPT !.verdict = e]
    [] e = "settled" -> [panel EXCEPT !.outcome = r]
    [] OTHER -> panel

Message ==
  /\ stream.at = "open" /\ stream.read < Len(history[stream.of])
  /\ LET r == stream.of
         e == history[r][stream.read + 1]
         told == IF page = "hire" THEN HireShown(r, e) ELSE Shown(r, e)
     IN /\ panel' = [told EXCEPT !.steps = Append(@, <<r, e>>)]
        /\ IF e \in {"settled", "error"}
           THEN Stop
           ELSE stream' = [stream EXCEPT !.read = @ + 1] /\ UNCHANGED <<running, watchdog>>
  /\ UNCHANGED <<page, run, flow, history, story, faults>>

(* onerror: the courtroom and the rail stop, the hire page reconnects.     *)
Drop == IF page = "hire" THEN Open(stream.of) /\ UNCHANGED <<running, watchdog>> ELSE Stop

StreamError ==
  /\ stream.at # "closed" /\ faults < MaxFaults /\ faults' = faults + 1
  /\ Drop
  /\ UNCHANGED <<page, run, flow, panel, history, story>>

(* The web server's proxy awaits the acknowledgement; a refusal, a worker  *)
(* that is away and one that takes ten seconds are failures, and the       *)
(* request may have been served all the same.                              *)
ProxyAnswers(r) == {"unanswered"} \cup (IF story[r] = NoStory THEN {} ELSE {"done"})

(* The answer to the POST.                                                 *)
PostAnswered(r) ==
  /\ flow[r] = "post"
  /\ \E answer \in ProxyAnswers(r) :
       /\ Continue(r, answer)
       /\ IF answer = "done" THEN UNCHANGED <<running, stream, watchdog>> ELSE Stop
  /\ UNCHANGED <<page, run, panel, history, story, faults>>

(* Mutant: the jobs answer arms no watchdog.                               *)
ArmNothing == UNCHANGED watchdog

ArmWatchdog == watchdog' = TRUE

(* hire(): register, open the stream, sign, fund, dispatch; any failure,   *)
(* and a rejected signature, ends in the same catch.                       *)
HireGoesOn(r) ==
  /\ flow[r] \in {"register", "sign", "fund", "dispatch"}
  /\ \/ flow[r] = "register" /\ Continue(r, "sign") /\ Open(r) /\ UNCHANGED watchdog
     \/ flow[r] = "sign" /\ Continue(r, "fund") /\ UNCHANGED <<stream, watchdog>>
     \/ flow[r] = "fund" /\ Continue(r, "dispatch") /\ UNCHANGED <<stream, watchdog>>
     \/ /\ flow[r] = "dispatch" /\ story[r] # NoStory
        /\ Continue(r, "done") /\ ArmWatchdog /\ UNCHANGED stream
  /\ UNCHANGED <<page, run, running, panel, history, story, faults>>

HireFails(r) ==
  /\ flow[r] \in {"register", "sign", "fund", "dispatch"}
  /\ Continue(r, IF flow[r] = "dispatch" THEN "unanswered" ELSE "failed") /\ Stop
  /\ UNCHANGED <<page, run, panel, history, story, faults>>

(* 90 s, or 150 s on the hire page.                                        *)
Watchdog ==
  /\ watchdog
  /\ Stop
  /\ UNCHANGED <<page, run, flow, panel, history, story, faults>>

(* The worker restarts: the histories are gone, and every stream with      *)
(* them; a background run dies, a job is taken up again by the keeper.     *)
Restart ==
  /\ faults < MaxFaults /\ faults' = faults + 1
  /\ history' = [r \in Runs |-> <<>>]
  /\ story' = [r \in Runs |-> IF page = "hire" \/ story[r] = NoStory THEN story[r] ELSE <<>>]
  /\ IF stream.at = "closed" THEN UNCHANGED <<running, watchdog, stream>> ELSE Drop
  /\ UNCHANGED <<page, run, flow, panel>>

Answer(r) == PostAnswered(r) \/ (flow[r] # "sign" /\ (HireGoesOn(r) \/ HireFails(r)))

PageNext ==
  \/ \E r \in Runs : \/ CourtroomRun(r) \/ Watch(r) \/ TryRun(r) \/ Hire(r) \/ AgentRun(r)
                     \/ Serve(r) \/ Publish(r) \/ PostAnswered(r) \/ HireGoesOn(r) \/ HireFails(r)
  \/ Connected \/ Message \/ StreamError \/ Watchdog \/ Restart

(* The timers of a browser run, and every fetch is answered or fails: the  *)
(* proxies abort after ten seconds and the others time out.  Nothing is    *)
(* assumed of the worker, the network or the person asked to sign.         *)
PageFairness == WF_pageVars(Watchdog) /\ \A r \in Runs : WF_pageVars(Answer(r))

PageSpec == PageInit /\ [][PageNext]_pageVars /\ PageFairness
------------------------------------------------------------------------------
PageTypeOK ==
  /\ page \in Pages /\ run \in 0 .. MaxRuns /\ faults \in 0 .. MaxFaults
  /\ {running, watchdog, panel.floor, panel.sawStaticFail} \subseteq BOOLEAN
  /\ stream.of \in 0 .. MaxRuns /\ stream.at \in {"closed", "connecting", "open"}
  /\ stream.at # "closed" => stream.of \in Runs /\ stream.read \in 0 .. Len(history[stream.of])
  /\ flow \in [Runs -> Awaiting \cup {"none", "connect", "watch", "refused", "unanswered",
                                      "failed", "done"}]
  /\ panel.verdict \in Verdicts \cup {"none"} /\ panel.outcome \in 0 .. MaxRuns
  /\ \A i \in DOMAIN panel.steps : panel.steps[i] \in Runs \X Events
  /\ \A r \in Runs : \A s \in {history[r], story[r]} :
       s = NoStory \/ \A i \in DOMAIN s : s[i] \in Events

(* "so a late-connecting dashboard sees the full run" (sse-bus.ts): what   *)
(* the courtroom and the rail show is of the latest run only, and while it *)
(* runs it is what the worker published, in order, from the beginning,     *)
(* nothing twice; the floor is shown blocking a release exactly when a     *)
(* non-passing verdict followed a static finding in it.                    *)
StoryInOrder ==
  page # "hire" =>
    /\ \A i \in DOMAIN panel.steps : panel.steps[i][1] = run
    /\ running => IsPrefix([i \in DOMAIN panel.steps |-> panel.steps[i][2]], history[run])
    /\ panel.floor <=>
         \E i, j \in DOMAIN panel.steps :
           /\ i < j
           /\ panel.steps[i][2] = "static_fail" /\ panel.steps[j][2] \in {"fail", "abstain"}

(* "instead of a forever-spinner": a page that shows a run going stops     *)
(* showing it, whatever the worker does, short of a signature nobody gives.*)
SpinnerEnds == running ~> (~running \/ \E r \in Runs : flow[r] = "sign")
=============================================================================
