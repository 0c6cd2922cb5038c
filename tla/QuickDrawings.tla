---------------------------- MODULE QuickDrawings ----------------------------
(***************************************************************************)
(* Quick drawings: what a user draws for a moment on the view, and what    *)
(* the others are shown of it (QuickDrawingAssist, QuickDrawItem).         *)
(*                                                                         *)
(* The drawer's item queues its points and sends them as bits, every       *)
(* second and at the release; each watcher makes an item of the first bits *)
(* it receives, draws the points little by little, then erases them, and   *)
(* deletes the item once the last bits are erased. Timers fire at any time *)
(* while they run. Points are only counted, since every queue is a FIFO.   *)
(***************************************************************************)
EXTENDS Integers, Sequences, FiniteSetsExt

CONSTANTS
  User, Drawers,
  RateFloor,    \* points drawn or erased by a tick: 5 in the code
  MaxDrawings,  \* bound on the drawings
  MaxPoints,    \* bound on the points drawn
  MaxComings    \* bound on connections, ends of them and maps loaded

QuickAssumption ==
  /\ Drawers \subseteq User
  /\ RateFloor \in Nat \ {0}
  /\ MaxDrawings \in Nat /\ MaxPoints \in Nat /\ MaxComings \in Nat

DrawId == 1..MaxDrawings
None == 0      \* no drawing
NoItem == [push |-> 0, chomp |-> 0, last |-> FALSE, pushing |-> FALSE, chomping |-> FALSE,
           exists |-> FALSE]
Slip == {"unsent", "untold", "lost", "away", "erased", "cleared"}

VARIABLES
  assist,    \* QuickDrawingAssist of each user, and its client
  drawings,  \* _quickDrawings of each user
  toServer,  \* what each client sent, not yet relayed
  inbox,     \* event queue of each interface
  drawn,     \* history variable: drawer and number of points of each drawing
  shown,     \* history variable: points that were drawn on each view
  missed,    \* history variable: see Slip
  comings,   \* connections, ends of them and maps loaded so far
  crashed    \* history variable: the null client was used

vars == <<assist, drawings, toServer, inbox, drawn, shown, missed, comings, crashed>>

TypeOK ==
  /\ \A u \in User :
       /\ assist[u].temp \in {None} \cup DrawId /\ assist[u].updating \in BOOLEAN
       /\ assist[u].client \in BOOLEAN /\ assist[u].named \in BOOLEAN
       /\ \A d \in DrawId : drawings[u][d].push \in Nat /\ drawings[u][d].chomp \in Nat
  /\ shown \in [User -> [DrawId -> Nat]]
  /\ missed \in [User -> [DrawId -> SUBSET Slip]]

Init ==
  /\ \E connected \in SUBSET User :
       assist = [u \in User |-> [temp |-> None, updating |-> FALSE,
                                client |-> u \in connected, named |-> u \in connected]]
  /\ drawings = [u \in User |-> [d \in DrawId |-> NoItem]]
  /\ toServer = [u \in User |-> <<>>] /\ inbox = [u \in User |-> <<>>]
  /\ drawn = <<>>
  /\ shown = [u \in User |-> [d \in DrawId |-> 0]]
  /\ missed = [u \in User |-> [d \in DrawId |-> {}]]
  /\ comings = 0
  /\ crashed = FALSE

---------------------------------------------------------------------------
(* QuickDrawItem *)

decreaseRate(remaining) == Min({remaining, Max({RateFloor, (remaining * 5) \div 1000})})

moveLine(x) == [x EXCEPT !.push = @ + 1, !.chomp = @ + 1, !.chomping = TRUE]

dequeuePushPoints(x) == [x EXCEPT !.push = 0]

\* Nothing is added to an item that had its last bits
addPathBits(x, points, isLast) ==
  IF x.last THEN x ELSE [x EXCEPT !.last = isLast, !.push = @ + points, !.pushing = TRUE]

registerForDeletion(x) == IF x.exists THEN [x EXCEPT !.last = TRUE] ELSE x

\* _push; the last tick starts the wait for the erasure
Push(u, d) ==
  LET x == drawings[u][d]
      points == decreaseRate(x.push)
  IN /\ x.pushing
     /\ drawings' = [drawings EXCEPT ![u][d] =
          IF x.push = 0 THEN [x EXCEPT !.pushing = FALSE, !.chomping = TRUE]
          ELSE [x EXCEPT !.push = @ - points, !.chomp = @ + points]]
     /\ shown' = [shown EXCEPT ![u][d] = @ + points]
     /\ UNCHANGED <<assist, toServer, inbox, drawn, missed, comings, crashed>>

\* _chomp; nothing left and the last bits received, the item deletes itself,
\* whatever it still has to push
Chomp(u, d) ==
  LET x == drawings[u][d] IN
  /\ x.chomping
  /\ \/ /\ x.chomp > 0
        /\ drawings' = [drawings EXCEPT ![u][d].chomp = @ - decreaseRate(@)]
     \/ /\ x.chomp = 0 /\ x.last
        /\ drawings' = [drawings EXCEPT ![u][d] = NoItem]
  /\ UNCHANGED <<assist, toServer, inbox, drawn, shown, missed, comings, crashed>>

---------------------------------------------------------------------------
(* QuickDrawingAssist, at the drawer's *)

allowNetworkInteraction(u) == assist[u].temp # None /\ assist[u].client /\ assist[u].named

\* _maySendQuickDrawNetworkUpdate: nothing is sent when there is no new point
maySend(u, areLast) ==
  LET d == assist[u].temp IN
  IF allowNetworkInteraction(u) /\ drawings[u][d].push > 0
  THEN toServer' = [toServer EXCEPT
         ![u] = Append(@, [id |-> d, points |-> drawings[u][d].push, last |-> areLast])]
  ELSE UNCHANGED toServer

\* The item of the drawer, once what it had was sent or not
afterSending(u, x) == IF allowNetworkInteraction(u) THEN dequeuePushPoints(x) ELSE x

others(u) == User \ {u}

\* Causes noted for what some users see of a drawing
missing(users, d, causes) ==
  [u \in User |-> IF u \in users THEN [missed[u] EXCEPT ![d] = @ \cup causes] ELSE missed[u]]

releaseCauses(u) ==
  LET d == assist[u].temp IN
  (IF ~allowNetworkInteraction(u) THEN {"untold"} ELSE {})
    \cup (IF drawings[u][d].push = 0 THEN {"unsent"} ELSE {})

\* addDrawingPoint
Press(u) ==
  /\ u \in Drawers /\ assist[u].temp = None /\ Len(drawn) < MaxDrawings
  /\ LET d == Len(drawn) + 1 IN
     /\ drawn' = Append(drawn, [by |-> u, points |-> 0])
     /\ drawings' = [drawings EXCEPT ![u][d] = [NoItem EXCEPT !.exists = TRUE]]
     /\ assist' = [assist EXCEPT ![u].temp = d,
                                 ![u].updating = assist[u].client /\ assist[u].named]
     /\ missed' = missing({w \in others(u) : ~assist[w].client}, d, {"away"})
  /\ UNCHANGED <<toServer, inbox, shown, comings, crashed>>

\* updateDrawingPath
Move(u) ==
  LET d == assist[u].temp IN
  /\ d # None /\ drawn[d].points < MaxPoints
  /\ drawn' = [drawn EXCEPT ![d].points = @ + 1]
  /\ drawings' = [drawings EXCEPT ![u][d] = moveLine(@)]
  /\ UNCHANGED <<assist, toServer, inbox, shown, missed, comings, crashed>>

\* A second has passed
Update(u) ==
  LET d == assist[u].temp IN
  /\ assist[u].updating
  /\ d # None /\ drawings[u][d].push > 0
  /\ maySend(u, FALSE)
  /\ drawings' = [drawings EXCEPT ![u][d] = afterSending(u, @)]
  /\ UNCHANGED <<assist, inbox, drawn, shown, missed, comings, crashed>>

\* _resetTempDrawing
resetTempDrawing(items, u) ==
  IF assist[u].temp = None THEN items
  ELSE [items EXCEPT ![assist[u].temp] = registerForDeletion(@)]

\* onMouseRelease, at the release, or when the tool changes
Release(u) ==
  LET d == assist[u].temp IN
  /\ d # None
  /\ maySend(u, TRUE)
  /\ drawings' = [drawings EXCEPT ![u] =
       resetTempDrawing([drawings[u] EXCEPT ![d] = afterSending(u, @)], u)]
  /\ assist' = [assist EXCEPT ![u].temp = None, ![u].updating = FALSE]
  /\ missed' = missing(others(u), d, releaseCauses(u))
  /\ UNCHANGED <<inbox, drawn, shown, comings, crashed>>

---------------------------------------------------------------------------
(* Connections and maps *)

comes == comings < MaxComings /\ comings' = comings + 1

\* bindObservedClient
Join(u) ==
  /\ comes /\ ~assist[u].client
  /\ assist' = [assist EXCEPT ![u].client = TRUE]
  /\ UNCHANGED <<drawings, toServer, inbox, drawn, shown, missed, crashed>>

\* _defineSelfUserFromSession; the timer is not started for what is being drawn
HearSession(u) ==
  /\ assist[u].client /\ ~assist[u].named
  /\ assist' = [assist EXCEPT ![u].named = TRUE]
  /\ UNCHANGED <<drawings, toServer, inbox, drawn, shown, missed, comings, crashed>>

\* Mutant: what was on show is left as it is.
connectionClosedForgetting(u) == drawings[u]

\* connectionClosed: everything but the drawing under way is registered for deletion
connectionClosed(u) ==
  [d \in DrawId |-> IF d = assist[u].temp THEN drawings[u][d]
                    ELSE registerForDeletion(drawings[u][d])]

holds(queue, d) == \E n \in DOMAIN queue : queue[n].id = d

\* What the client sent and the server has not read is lost, and what it had not
\* read yet; what it read is still in the queue of the interface.
Leave(u) ==
  /\ comes /\ assist[u].client
  /\ assist' = [assist EXCEPT ![u].client = FALSE, ![u].named = FALSE, ![u].updating = FALSE]
  /\ drawings' = [drawings EXCEPT ![u] = connectionClosed(u)]
  /\ toServer' = [toServer EXCEPT ![u] = <<>>]
  /\ \E n \in 0..Len(inbox[u]) :
       /\ inbox' = [inbox EXCEPT ![u] = SubSeq(@, 1, n)]
       /\ missed' = [w \in User |-> [d \in DrawId |->
            missed[w][d]
              \cup (IF w = u THEN {"away"} ELSE {})
              \cup (IF \/ w # u /\ d \in DOMAIN drawn /\ drawn[d].by = u
                       \/ /\ w = u /\ holds(SubSeq(inbox[u], 1, n), d)
                          /\ holds(SubSeq(inbox[u], n + 1, Len(inbox[u])), d)
                    THEN {"lost"} ELSE {})]]
  /\ UNCHANGED <<drawn, shown, crashed>>

\* A map is loaded in the view: the tool is reset, and clearDrawings
Reset(u) ==
  LET d == assist[u].temp IN
  /\ comes
  /\ IF d = None THEN UNCHANGED toServer ELSE maySend(u, TRUE)
  /\ drawings' = [drawings EXCEPT ![u] = [i \in DrawId |-> NoItem]]
  /\ assist' = [assist EXCEPT ![u].temp = None, ![u].updating = FALSE]
  /\ missed' =
       LET told == IF d = None THEN missed ELSE missing(others(u), d, releaseCauses(u))
       IN [told EXCEPT ![u] = [i \in DrawId |-> @[i] \cup {"cleared"}]]
  /\ UNCHANGED <<inbox, drawn, shown, crashed>>

---------------------------------------------------------------------------
(* What the others see *)

\* RPZServer: to every other user with a socket
Relay(u) ==
  /\ toServer[u] # <<>>
  /\ toServer' = [toServer EXCEPT ![u] = Tail(@)]
  /\ LET present == {w \in others(u) : assist[w].client} IN
     /\ inbox' = [w \in User |-> IF w \in present THEN Append(inbox[w], Head(toServer[u]))
                                 ELSE inbox[w]]
     /\ LET d == Head(toServer[u]).id IN
        missed' = missing({w \in others(u) \ present : holds(inbox[w], d)}, d, {"lost"})
  /\ UNCHANGED <<assist, drawings, drawn, shown, comings, crashed>>

\* _onQuickDrawBitsReceived: what is unknown is created, of the users that the client
\* knows, the client being looked at as it is now
HearBits(u) ==
  /\ inbox[u] # <<>>
  /\ inbox' = [inbox EXCEPT ![u] = Tail(@)]
  /\ LET bits == Head(inbox[u])
         x == drawings[u][bits.id]
     IN /\ crashed' = (~x.exists /\ ~assist[u].client)
        /\ drawings' = [drawings EXCEPT ![u][bits.id] =
             addPathBits([x EXCEPT !.exists = TRUE], bits.points, bits.last)]
        /\ missed' = IF bits.last /\ x.chomping THEN missing({u}, bits.id, {"erased"}) ELSE missed
  /\ UNCHANGED <<assist, toServer, drawn, shown, comings>>

Next ==
  /\ ~crashed
  /\ \E u \in User :
       \/ Press(u) \/ Move(u) \/ Update(u) \/ Release(u)
       \/ Join(u) \/ HearSession(u) \/ Leave(u) \/ Reset(u)
       \/ Relay(u) \/ HearBits(u)
       \/ \E d \in DrawId : Push(u, d) \/ Chomp(u, d)

Spec == Init /\ [][Next]_vars

---------------------------------------------------------------------------
(* Properties *)

\* A drawing that is finished, at the drawer's and on the way
Finished(d) ==
  /\ assist[drawn[d].by].temp # d
  /\ \A u \in User : ~holds(toServer[u], d) /\ ~holds(inbox[u], d)

(* Every point of a finished drawing was drawn once on the view of every other user,  *)
(* unless somebody's connection or map changed, the drawer was not in a session, or    *)
(* the last bits came to an item whose erasure had begun (QuickDrawItem.hpp:170): it   *)
(* is deleted before they are drawn.                                                    *)
DrawingsSeen ==
  \A d \in DOMAIN drawn : \A u \in others(drawn[d].by) :
    /\ Finished(d) /\ ~drawings[u][d].pushing
         /\ missed[u][d] \cap {"untold", "lost", "away", "erased", "cleared"} = {}
       => shown[u][d] = drawn[d].points
    /\ shown[u][d] <= drawn[d].points

(* Nothing of a finished drawing stays for good: every item of it runs towards its     *)
(* deletion, but for a click that drew nothing, and for a watcher who is never sent    *)
(* the last bits: the drawer left, or had sent every point when releasing               *)
(* (QuickDrawingAssist.hpp:133), or the watcher left with only some bits still queued.  *)
DrawingsVanish ==
  ~crashed => \A d \in DOMAIN drawn : \A u \in User :
    /\ Finished(d) /\ drawings[u][d].exists
    /\ drawn[d].points > 0
    /\ missed[u][d] \cap {"unsent", "untold", "lost"} = {}
    => drawings[u][d].last /\ (drawings[u][d].pushing \/ drawings[u][d].chomping)
=============================================================================
