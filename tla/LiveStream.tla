------------------------------ MODULE LiveStream -----------------------------
(***************************************************************************)
(* The websocket of one test match (api/routers/test_matches.py) and the   *)
(* Redis channel behind it.  Redis forgets: a message reaches who is       *)
(* subscribed when it is published.  Only the terminal status matters to   *)
(* the end of a stream; the frames before it are left out.                 *)
(***************************************************************************)
EXTENDS TestJobs

VARIABLE viewer  \* the stream's program counter, its job, and the terminal
                 \* status received and not yet forwarded

ViewerState ==
  [pc    : {"off", "open", "subscribed", "told", "live"},
   job   : TestIds \union {0},
   inbox : {"none", "success", "failure"}]

NoViewer == [pc |-> "off", job |-> 0, inbox |-> "none"]

ViewerInit == viewer = NoViewer

\* _auth_and_get_job: the row must be there.
ViewerOpens(j) ==
  /\ viewer.pc = "off"
  /\ Exists(j)
  /\ viewer' = [viewer EXCEPT !.pc = "open", !.job = j]

ViewerSubscribes ==
  /\ viewer.pc = "open"
  /\ viewer' = [viewer EXCEPT !.pc = "subscribed"]

\* Mutant: the subscription comes after the snapshot, just before the loop.
ListensOnceLive(j) == viewer.job = j /\ viewer.pc = "live"

\* Subscribed before the snapshot is read.
Listens(j) == viewer.job = j /\ viewer.pc \in {"subscribed", "told", "live"}

\* _load_snapshot: a terminal row ends the stream, a missing one does not.
ViewerSnapshot ==
  /\ viewer.pc = "subscribed"
  /\ viewer' = IF test[viewer.job].status \in Terminal THEN NoViewer
               ELSE [viewer EXCEPT !.pc = "told"]

\* The snapshot is sent, then the loop over messages begins.
ViewerGoesLive ==
  /\ viewer.pc = "told"
  /\ viewer' = [viewer EXCEPT !.pc = "live"]

ViewerForwards ==
  /\ viewer.pc = "live"
  /\ viewer.inbox # "none"
  /\ viewer' = NoViewer

\* asyncio.timeout(600), or the client disconnects.
ViewerLeaves ==
  /\ viewer.pc # "off"
  /\ viewer' = NoViewer

\* RedisStreamObserver.publish_status.
Publish(j, status) ==
  viewer' = IF Listens(j) /\ viewer.inbox = "none"
            THEN [viewer EXCEPT !.inbox = status] ELSE viewer
=============================================================================
