------------------------------- MODULE RunPage -------------------------------
(***************************************************************************)
(* The page of a run (frontend/src/pages/RunPage.tsx) and the two endpoints *)
(* it shows: the GET of the run and the stream of its progress (get_state  *)
(* and get_events of interfaces/api/routes/runs.py), beside the pipeline   *)
(* that moves the run.  Both are asked at once when the page opens, on     *)
(* connections of their own, and race for what the page displays.          *)
(*                                                                         *)
(* A message of the stream carries no `type', so the branch of the page    *)
(* for run_completed is never taken and every message is merged.  The      *)
(* half second between two polls is any time.  React runs an effect once   *)
(* (twice only in development).                                            *)
(***************************************************************************)
EXTENDS EventPipeline

CONSTANT MaxInTransit   \* bound: messages of the stream under way

ASSUME PageConfig == MaxInTransit \in Nat \ {0}

VARIABLES
    shown,   \* the page of a run: what it displays, from a message (live) or not
    get,     \* the initial GET: its place and the state it was answered with
    feed     \* the generator of the stream, and its messages under way

page == <<shown, get, feed>>
pageVars == <<vars, page>>

\* The state of a run, as both endpoints read it; its total never changes.
State(r) == [status |-> status[r], completed |-> completed[r]]

NoState == [status |-> "absent", completed |-> 0]

Connected == [at |-> "open", transit |-> <<>>]

PageInit ==
    /\ Init
    /\ shown = [r \in Runs |-> [view |-> "none", live |-> FALSE, run |-> NoState]]
    /\ get = [r \in Runs |-> [at |-> "none", state |-> NoState]]
    /\ feed = [r \in Runs |-> [at |-> "closed", transit |-> <<>>]]

-----------------------------------------------------------------------------
(* The endpoints. *)

AnswerGet(r) ==
    /\ get[r].at = "asked"
    /\ get' = [get EXCEPT ![r] = [at |-> "answered", state |-> State(r)]]
    /\ UNCHANGED <<vars, shown, feed>>

Final(state) == state.status \in {"finished", "failed"}

\* The loop is left before the last message is sent.
FaultyPolled(state) == IF Final(state) THEN <<>> ELSE <<state>>

Polled(state) == <<state>>

\* One round of event_generator.
Poll(r) ==
    /\ feed[r].at = "open" /\ Len(feed[r].transit) < MaxInTransit
    /\ feed' = [feed EXCEPT ![r] = [at |-> IF Final(State(r)) THEN "ended" ELSE "open",
                                    transit |-> @.transit \o Polled(State(r))]]
    /\ UNCHANGED <<vars, shown, get>>

-----------------------------------------------------------------------------
(* The page. *)

\* Both effects.
OpenPage(r) ==
    /\ shown[r].view = "none"
    /\ status[r] # "absent"
    /\ shown' = [shown EXCEPT ![r].view = "loading"]
    /\ get' = [get EXCEPT ![r].at = "asked"]
    /\ feed' = [feed EXCEPT ![r] = Connected]
    /\ UNCHANGED vars

\* The answer replaces what is displayed; if the GET had to refresh the token, the
\* second effect runs again and connects anew.
ReceiveRun(r) ==
    /\ get[r].at = "answered"
    /\ get' = [get EXCEPT ![r].at = "done"]
    /\ shown' = [shown EXCEPT ![r] = [view |-> "run", live |-> @.live,
                                      run |-> get[r].state]]
    /\ \E refreshed \in BOOLEAN :
          feed' = [feed EXCEPT ![r] = IF refreshed THEN Connected ELSE @]
    /\ UNCHANGED vars

\* A message before the answer of the GET is not ignored.
FaultyMerged(view, message) == [view |-> "run", live |-> TRUE, run |-> message]

\* onmessage: ignored while the page has no run.
Merged(view, message) ==
    IF view.view # "run" THEN view
    ELSE [view |-> "run", live |-> TRUE, run |-> message]

ReceiveEvent(r) ==
    /\ feed[r].transit # <<>>
    /\ shown' = [shown EXCEPT ![r] = Merged(@, Head(feed[r].transit))]
    /\ feed' = [feed EXCEPT ![r].transit = Tail(@)]
    /\ UNCHANGED <<vars, get>>

-----------------------------------------------------------------------------
(* What goes wrong. *)

FaultOfPage == Fault /\ UNCHANGED <<database, report, redis, api, reader, worker,
                                    dropped, retried>>

\* The page displays the error, and nothing else any more.
Failed(r) == [shown[r] EXCEPT !.view = "error"]

GetFails(r) ==
    /\ get[r].at \in {"asked", "answered"}
    /\ FaultOfPage
    /\ get' = [get EXCEPT ![r].at = "done"]
    /\ shown' = [shown EXCEPT ![r] = Failed(r)]
    /\ UNCHANGED feed

\* The page has not read the stream to its end.
Unread(f) == f.at = "open" \/ (f.at = "ended" /\ f.transit # <<>>)

\* onerror throws, so that nothing connects again; the last messages may be lost.
Lost(f) == {[at |-> "lost", transit |-> SubSeq(f.transit, 1, n)] : n \in 0..Len(f.transit)}

ConnectionLost(r) ==
    /\ Unread(feed[r])
    /\ FaultOfPage
    /\ \E lost \in Lost(feed[r]) : feed' = [feed EXCEPT ![r] = lost]
    /\ UNCHANGED <<shown, get>>

\* fetchEventSource leaves the stream of a page that is hidden, and connects again
\* when it is visible.
HiddenAndVisible(r) ==
    /\ Unread(feed[r])
    /\ FaultOfPage
    /\ feed' = [feed EXCEPT ![r] = Connected]
    /\ UNCHANGED <<shown, get>>

\* The requests the API was serving fail.
RestartApi ==
    /\ ApiRestarts
    /\ feed' \in [Runs -> UNION {Lost(feed[r]) \cup {feed[r]} : r \in Runs}]
    /\ \A r \in Runs :
          \/ Unread(feed[r]) /\ feed'[r] \in Lost(feed[r])
          \/ feed[r].at # "open" /\ feed'[r] = feed[r]
    /\ get' = [r \in Runs |-> IF get[r].at = "asked" THEN [get[r] EXCEPT !.at = "done"]
                              ELSE get[r]]
    /\ shown' = [r \in Runs |-> IF get[r].at = "asked" THEN Failed(r) ELSE shown[r]]

-----------------------------------------------------------------------------

PageStep(r) == AnswerGet(r) \/ ReceiveRun(r) \/ Poll(r) \/ ReceiveEvent(r)

PageNext ==
    \/ Uninterrupted /\ UNCHANGED page
    \/ RestartApi
    \/ \E r \in Runs :
          \/ OpenPage(r)
          \/ PageStep(r)
          \/ GetFails(r)
          \/ ConnectionLost(r)
          \/ HiddenAndVisible(r)

PageSpec == PageInit /\ [][PageNext]_pageVars

\* Besides the pipeline, the requests of a page are answered and its connection
\* delivers, or they fail.
PageFairness ==
    /\ Fairness
    /\ \A r \in Runs :
          /\ WF_pageVars(AnswerGet(r))
          /\ WF_pageVars(ReceiveRun(r))
          /\ WF_pageVars(Poll(r))
          /\ WF_pageVars(ReceiveEvent(r))

FairPageSpec == PageSpec /\ PageFairness

-----------------------------------------------------------------------------

Rank(state) ==
    IF state.status = "queued" THEN 0 ELSE IF state.status = "running" THEN 1 ELSE 2

\* The first message may be older than the answer of the GET and take the page
\* back; from then on its progress only grows, over every reconnection.
LiveNeverGoesBack ==
    [][\A r \in Runs : shown[r].live =>
          /\ Rank(shown[r].run) <= Rank(shown'[r].run)
          /\ shown[r].run.completed <= shown'[r].run.completed]_pageVars

\* A page that has its run while the stream is open comes to show the end of it,
\* unless its task died or the connection is lost.
PageSeesTheEnd ==
    \A r \in Runs :
        (shown[r].view = "run" /\ feed[r].at = "open")
            ~> (shown[r].run.status = "finished" \/ task[r] = "dead" \/ feed[r].at = "lost")

=============================================================================
