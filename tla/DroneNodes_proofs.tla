--------------------------- MODULE DroneNodes_proofs ---------------------------
(***************************************************************************)
(* Proofs about the two swarm nodes of a drone, for every number of        *)
(* drones: the route executor, under every set of broadcasts in every      *)
(* order and an action server that answers when it likes; and, after it,   *)
(* the swarm member, under every order of callbacks and restarts.          *)
(***************************************************************************)
EXTENDS RouteExecutor, TLAPS

(* What a node's memory and the goals it sent have to do with each other:  *)
(* at most one goal is of the current generation, it is the leg being      *)
(* flown and the memory says in which stage; any other goal that runs has  *)
(* been asked to cancel.                                                   *)
Current(e, g) == g.generation = e.generation

OneCurrent(e, G) ==
  \A g, h \in G : Current(e, g) /\ Current(e, h) => g = h

CurrentIsKnown(e, G) ==
  \A g \in G :
    /\ g.generation <= e.generation
    /\ Current(e, g) =>
         /\ e.active /\ g.leg = e.done /\ e.done < e.legs
         /\ IF g.stage = "offered" THEN e.requesting ELSE e.child
    /\ g.stage = "running" /\ ~g.cancel => Current(e, g) /\ ~e.cancel

KnownExists(e, G) ==
  /\ e.requesting => \E g \in G : Current(e, g) /\ g.stage = "offered"
  /\ e.child => \E g \in G : Current(e, g) /\ g.stage = "running"

Fits(e, G) ==
  /\ OneCurrent(e, G)
  /\ CurrentIsKnown(e, G)
  /\ KnownExists(e, G)
  /\ e.cancel => e.active

(* While a route is active, what the last callback said claims no success, *)
(* and it asked for LAND only if LAND was commanded.                       *)
Truthful(e, messages, requests) ==
  /\ \A i \in DOMAIN messages : messages[i].state # "SUCCEEDED"
  /\ \A i \in DOMAIN requests : requests[i] = "LAND" =>
       \E c \in Commands : c.kind = "LAND" /\ c.command = e.command

Honest(e, messages, requests) ==
  e.active => e.last # "SUCCEEDED" /\ Truthful(e, messages, requests)

IInv ==
  /\ TypeOK
  /\ \A d \in Drones : Fits(ex[d], goals[d]) /\ Honest(ex[d], said[d], asked[d])

(* No goal of the current generation is left.                              *)
Gone(e, G) ==
  \A g \in G : /\ g.generation <= e.generation /\ ~Current(e, g)
               /\ g.stage = "running" => g.cancel

LEMMA GoneFits ==
  ASSUME NEW e, NEW G, Gone(e, G), ~e.requesting, ~e.child, e.cancel => e.active
  PROVE  Fits(e, G)
BY DEF Gone, Fits, OneCurrent, CurrentIsKnown, KnownExists

-----------------------------------------------------------------------------
(* A callback of one drone's node moves that drone alone.                  *)
Moves(d, e, G, messages, requests) ==
  /\ e \in Memory /\ G \in SUBSET Goal
  /\ messages \in Seq(Feedbacks) /\ requests \in Seq(FlightRequests)
  /\ ex' = [ex EXCEPT ![d] = e]
  /\ goals' = [goals EXCEPT ![d] = G]
  /\ said' = [said EXCEPT ![d] = messages]
  /\ asked' = [asked EXCEPT ![d] = requests]

(* No drone that was canceled says or asks what it must not.               *)
Faithful ==
  \A d \in Drones :
    ex[d].active /\ ex[d].cancel => Truthful(ex'[d], said'[d], asked'[d])

LEMMA Advance ==
  ASSUME IInv, NEW d \in Drones, NEW e, NEW G, NEW messages, NEW requests,
         Moves(d, e, G, messages, requests), Fits(e, G),
         e.active => e.last # "SUCCEEDED",
         e.active \/ (ex[d].active /\ ex[d].cancel) => Truthful(e, messages, requests)
  PROVE  IInv' /\ Faithful
<1>1. TypeOK'
  BY DEF IInv, TypeOK, Moves
<1>2. ASSUME NEW x \in Drones
      PROVE  /\ Fits(ex'[x], goals'[x])
             /\ Honest(ex'[x], said'[x], asked'[x])
             /\ ex[x].active /\ ex[x].cancel => Truthful(ex'[x], said'[x], asked'[x])
  <2>1. CASE x = d
    <3>1. ex'[x] = e /\ goals'[x] = G /\ said'[x] = messages /\ asked'[x] = requests
      BY <2>1 DEF IInv, TypeOK, Moves
    <3> QED
      BY <2>1, <3>1 DEF Honest
  <2>2. CASE x # d
    <3>1. /\ ex'[x] = ex[x] /\ goals'[x] = goals[x]
          /\ said'[x] = said[x] /\ asked'[x] = asked[x]
      BY <2>2 DEF IInv, TypeOK, Moves
    <3>2. Fits(ex[x], goals[x]) /\ Honest(ex[x], said[x], asked[x])
      BY DEF IInv
    <3> QED
      BY <3>1, <3>2 DEF Honest
  <2> QED
    BY <2>1, <2>2
<1> QED
  BY <1>1, <1>2 DEF IInv, Faithful

(* A step that leaves a function alone also replaces one of its values by  *)
(* itself.                                                                 *)
LEMMA Itself ==
  ASSUME NEW S, NEW T, NEW f \in [S -> T], NEW x \in S
  PROVE  f = [f EXCEPT ![x] = f[x]]
OBVIOUS

LEMMA Typed ==
  ASSUME IInv, NEW d \in Drones
  PROVE  /\ ex[d] \in Memory /\ goals[d] \in SUBSET Goal
         /\ Fits(ex[d], goals[d]) /\ Honest(ex[d], said[d], asked[d])
         /\ ex = [ex EXCEPT ![d] = ex[d]]
         /\ goals = [goals EXCEPT ![d] = goals[d]]
BY Itself DEF IInv, TypeOK

LEMMA FeedbackType ==
  ASSUME NEW e \in Memory, NEW d \in Drones, NEW state \in FeedbackStates
  PROVE  /\ MakeFeedback(e, d, state) \in Feedbacks
         /\ MakeFeedback(e, d, state).state = state
BY DEF MakeFeedback, Feedback, Feedbacks, Memory

(* What is said is silence or one message that is no success.              *)
LEMMA SilenceIsTruthful ==
  ASSUME NEW e
  PROVE  /\ Truthful(e, <<>>, <<>>)
         /\ <<>> \in Seq(Feedbacks) /\ <<>> \in Seq(FlightRequests)
BY DEF Truthful

LEMMA MessageIsTruthful ==
  ASSUME NEW e, NEW f \in Feedbacks, f.state # "SUCCEEDED"
  PROVE  Truthful(e, <<f>>, <<>>) /\ <<f>> \in Seq(Feedbacks)
BY DEF Truthful

-----------------------------------------------------------------------------
(* Canceling what the node holds.                                          *)
LEMMA CancelHeldFits ==
  ASSUME NEW d \in Drones, ex[d] \in Memory, goals[d] \in SUBSET Goal,
         Fits(ex[d], goals[d]), NEW e \in Memory,
         e.generation = ex[d].generation, e.active = ex[d].active,
         e.done = ex[d].done, e.legs = ex[d].legs, e.child = ex[d].child,
         e.requesting = ex[d].requesting, e.cancel => e.active
  PROVE  CancelHeld(d) \in SUBSET Goal /\ Fits(e, CancelHeld(d))
<1> DEFINE After(g) == [g EXCEPT !.cancel = @ \/ HeldGoal(ex[d], g)]
<1>1. ASSUME NEW g \in goals[d]
      PROVE  /\ After(g) \in Goal /\ After(g) \in CancelHeld(d)
             /\ After(g).generation = g.generation /\ After(g).leg = g.leg
             /\ After(g).stage = g.stage
             /\ After(g).cancel = (g.cancel \/ HeldGoal(ex[d], g))
  <2>1. g \in Goal /\ HeldGoal(ex[d], g) \in BOOLEAN
    BY DEF HeldGoal, Memory
  <2>2. After(g) \in CancelHeld(d)
    BY DEF CancelHeld
  <2> QED
    BY <2>1, <2>2 DEF Goal
<1>2. \A h \in CancelHeld(d) : \E g \in goals[d] : h = After(g)
  BY DEF CancelHeld
<1> HIDE DEF After
<1>3. CancelHeld(d) \in SUBSET Goal
  BY <1>1, <1>2
<1>4. OneCurrent(e, CancelHeld(d))
  BY <1>1, <1>2 DEF Fits, OneCurrent, Current
<1>5. CurrentIsKnown(e, CancelHeld(d))
  <2> SUFFICES ASSUME NEW g \in goals[d]
               PROVE  /\ After(g).generation <= e.generation
                      /\ Current(e, After(g)) =>
                           /\ e.active /\ After(g).leg = e.done /\ e.done < e.legs
                           /\ IF After(g).stage = "offered"
                              THEN e.requesting ELSE e.child
                      /\ After(g).stage = "running" /\ ~After(g).cancel =>
                           Current(e, After(g)) /\ ~e.cancel
    BY <1>2 DEF CurrentIsKnown
  <2>1. After(g).stage = "running" => After(g).cancel
    BY <1>1 DEF Fits, CurrentIsKnown, Current, HeldGoal
  <2> QED
    BY <1>1, <2>1 DEF Fits, CurrentIsKnown, Current
<1>6. KnownExists(e, CancelHeld(d))
  BY <1>1 DEF Fits, KnownExists, Current
<1> QED
  BY <1>3, <1>4, <1>5, <1>6 DEF Fits

(* A new generation fits the goals of the old ones, once canceled.         *)
LEMMA NewGenerationFits ==
  ASSUME NEW d \in Drones, ex[d] \in Memory, goals[d] \in SUBSET Goal,
         Fits(ex[d], goals[d]), NEW e \in Memory,
         e.generation = ex[d].generation + 1, ~e.cancel, ~e.requesting, ~e.child
  PROVE  CancelHeld(d) \in SUBSET Goal /\ Fits(e, CancelHeld(d))
<1> DEFINE f == [ex[d] EXCEPT !.cancel = ex[d].active]
<1>1. f \in Memory
  BY DEF Memory
<1>2. /\ f.generation = ex[d].generation /\ f.active = ex[d].active
      /\ f.done = ex[d].done /\ f.legs = ex[d].legs /\ f.child = ex[d].child
      /\ f.requesting = ex[d].requesting /\ f.cancel = ex[d].active
  BY DEF Memory
<1> HIDE DEF f
<1>3. CancelHeld(d) \in SUBSET Goal /\ Fits(f, CancelHeld(d))
  BY <1>1, <1>2, CancelHeldFits
<1>4. ASSUME NEW g \in CancelHeld(d)
      PROVE  /\ g.generation < e.generation
             /\ g.stage = "running" => g.cancel
  <2>1. g \in Goal /\ g.generation <= f.generation
    BY <1>3 DEF Fits, CurrentIsKnown
  <2>2. g.stage = "running" /\ ~g.cancel => FALSE
    BY <1>2, <1>3 DEF Fits, CurrentIsKnown
  <2> QED
    BY <1>2, <2>1, <2>2 DEF Goal, Memory
<1> QED
  BY <1>3, <1>4 DEF Fits, OneCurrent, CurrentIsKnown, KnownExists, Current, Goal, Memory

-----------------------------------------------------------------------------
(* Broadcasts.                                                             *)
LEMMA BroadcastTypes ==
  ASSUME NEW c \in Broadcasts, NEW d \in Drones
  PROVE  /\ c.command \in Nat /\ c.mission \in Nat /\ c.revision \in Nat
         /\ c.orders[d].id \in Nat /\ c.orders[d].legs \in Nat
BY DEF Broadcasts, Order

LEMMA IgnoreKeeps ==
  ASSUME IInv, NEW d \in Drones, Ignore(d), Ask(d, <<>>)
  PROVE  IInv' /\ Faithful
<1>1. Moves(d, ex[d], goals[d], <<>>, <<>>)
  BY Typed, SilenceIsTruthful DEF Moves, Ignore, Say, Ask
<1> QED
  BY <1>1, Typed, SilenceIsTruthful, Advance DEF Honest

LEMMA RejectKeeps ==
  ASSUME IInv, NEW d \in Drones, NEW c \in Broadcasts, RejectRoute(d, c), Ask(d, <<>>)
  PROVE  IInv' /\ Faithful
<1> DEFINE f == Feedback(c.command, c.mission, c.revision, d, c.orders[d].id,
                         "REJECTED", 0)
<1>1. f \in Feedbacks /\ f.state # "SUCCEEDED"
  BY BroadcastTypes DEF Feedback, Feedbacks, FeedbackStates, Failures
<1>2. said' = [said EXCEPT ![d] = <<f>>] /\ UNCHANGED <<ex, goals>>
  BY DEF RejectRoute, Say
<1> HIDE DEF f
<1>3. Truthful(ex[d], <<f>>, <<>>) /\ <<f>> \in Seq(Feedbacks)
  BY <1>1, MessageIsTruthful
<1>4. Moves(d, ex[d], goals[d], <<f>>, <<>>)
  BY <1>2, <1>3, Typed, SilenceIsTruthful DEF Moves, Ask
<1> QED
  BY <1>3, <1>4, Typed, Advance DEF Honest

LEMMA RepeatKeeps ==
  ASSUME IInv, NEW d \in Drones, RepeatFeedback(d), Ask(d, <<>>)
  PROVE  IInv' /\ Faithful
<1>1. CASE ex[d].last = "RECEIVED"
  <2>1. Ignore(d)
    BY <1>1 DEF RepeatFeedback, Ignore
  <2> QED
    BY <2>1, IgnoreKeeps
<1>2. CASE ex[d].last # "RECEIVED"
  <2> DEFINE f == MakeFeedback(ex[d], d, ex[d].last)
  <2>1. ex[d].last \in FeedbackStates
    BY <1>2, Typed DEF Memory
  <2>2. f \in Feedbacks /\ f.state = ex[d].last
    BY <2>1, Typed, FeedbackType
  <2>3. said' = [said EXCEPT ![d] = <<f>>] /\ UNCHANGED <<ex, goals>>
    BY <1>2 DEF RepeatFeedback, Say
  <2> HIDE DEF f
  <2>4. ex[d].active => f.state # "SUCCEEDED" /\ ex[d].last # "SUCCEEDED"
    BY <2>2, Typed DEF Honest
  <2>5. <<f>> \in Seq(Feedbacks)
    BY <2>2
  <2>6. Moves(d, ex[d], goals[d], <<f>>, <<>>)
    BY <2>3, <2>5, Typed, SilenceIsTruthful DEF Moves, Ask
  <2>7. ex[d].active => Truthful(ex[d], <<f>>, <<>>)
    BY <2>2, <2>4, MessageIsTruthful
  <2> QED
    BY <2>4, <2>6, <2>7, Typed, Advance
<1> QED
  BY <1>1, <1>2

LEMMA AcceptKeeps ==
  ASSUME IInv, NEW d \in Drones, NEW c \in Broadcasts, c.kind \in ExecuteKinds,
         AcceptRoute(d, c), Ask(d, <<>>)
  PROVE  IInv' /\ Faithful
<1> DEFINE a == Adopted(ex[d], c)
           e == IF Unchanged(ex[d], c, d) THEN a ELSE Replaced(ex[d], c, d)
           G == IF Unchanged(ex[d], c, d) THEN goals[d] ELSE CancelHeld(d)
           f == MakeFeedback(e, d, "ACCEPTED")
           Good == e \in Memory /\ e.last = "ACCEPTED" /\ G \in SUBSET Goal /\ Fits(e, G)
<1>1. "ACCEPTED" \in FeedbackStates
  BY DEF FeedbackStates, Acceptances
<1>2. /\ a \in Memory /\ a.last = "ACCEPTED" /\ a.generation = ex[d].generation
      /\ a.active = ex[d].active /\ a.done = ex[d].done /\ a.legs = ex[d].legs
      /\ a.requesting = ex[d].requesting /\ a.child = ex[d].child
      /\ a.cancel = ex[d].cancel
  BY <1>1, Typed, BroadcastTypes DEF Adopted, Memory
<1>3. ASSUME Unchanged(ex[d], c, d) PROVE Good
  <2>1. e = a /\ G = goals[d]
    BY <1>3
  <2>2. Fits(a, goals[d])
    <3> HIDE DEF a
    <3> QED
      BY <1>2, Typed
      DEF Fits, OneCurrent, CurrentIsKnown, KnownExists, Current
  <2> QED
    BY <1>2, <2>1, <2>2, Typed
<1>4. ASSUME ~Unchanged(ex[d], c, d) PROVE Good
  <2> DEFINE r == Replaced(ex[d], c, d)
  <2>1. /\ r \in Memory /\ r.last = "ACCEPTED"
        /\ r.generation = ex[d].generation + 1
        /\ ~r.cancel /\ ~r.requesting /\ ~r.child
    <3> HIDE DEF a
    <3>1. a.generation + 1 \in Nat
      BY <1>2 DEF Memory
    <3>2. r = [a EXCEPT
                 !.generation = @ + 1, !.route = c.orders[d].id, !.legs = c.orders[d].legs,
                 !.purpose = c.kind, !.done = 0, !.requesting = FALSE, !.child = FALSE,
                 !.cancel = FALSE, !.active = TRUE]
      BY DEF Replaced, a
    <3> HIDE DEF r
    <3> QED
      BY <1>2, <3>1, <3>2, BroadcastTypes DEF Memory
  <2>2. e = r /\ G = CancelHeld(d)
    BY <1>4
  <2> HIDE DEF r, e, G
  <2>3. CancelHeld(d) \in SUBSET Goal /\ Fits(r, CancelHeld(d))
    BY <2>1, Typed, NewGenerationFits
  <2> QED
    BY <2>1, <2>2, <2>3
<1>5. Good
  BY <1>3, <1>4
<1>6. f \in Feedbacks /\ f.state = "ACCEPTED"
  <2> HIDE DEF e
  <2> QED
    BY <1>1, <1>5, FeedbackType
<1>7. /\ ex' = [ex EXCEPT ![d] = e] /\ goals' = [goals EXCEPT ![d] = G]
      /\ said' = [said EXCEPT ![d] = <<f>>]
  <2>1. ex' = [ex EXCEPT ![d] = e]
    BY DEF AcceptRoute, Remember
  <2>2. ex'[d] = e
    BY <2>1 DEF IInv, TypeOK
  <2>3. goals' = [goals EXCEPT ![d] = G]
    BY Typed DEF AcceptRoute
  <2>4. said' = [said EXCEPT ![d] = <<MakeFeedback(ex'[d], d, "ACCEPTED")>>]
    BY DEF AcceptRoute, Say
  <2> QED
    BY <2>1, <2>2, <2>3, <2>4
<1> HIDE DEF e, G, f
<1>8. Truthful(e, <<f>>, <<>>) /\ <<f>> \in Seq(Feedbacks)
  BY <1>6, MessageIsTruthful
<1>9. Moves(d, e, G, <<f>>, <<>>)
  BY <1>5, <1>7, <1>8, SilenceIsTruthful DEF Moves, Ask
<1> QED
  BY <1>5, <1>8, <1>9, Advance

(* A cancellation flags the route and its goal, and says nothing.          *)
LEMMA FlagKeeps ==
  ASSUME IInv, NEW d \in Drones, ex[d].active, NEW e \in Memory,
         e.cancel, e.generation = ex[d].generation, e.active = ex[d].active,
         e.done = ex[d].done, e.legs = ex[d].legs, e.child = ex[d].child,
         e.requesting = ex[d].requesting, e.last = ex[d].last,
         ex' = [ex EXCEPT ![d] = e], goals' = [goals EXCEPT ![d] = CancelHeld(d)],
         Say(d, <<>>),
         NEW requests \in Seq(FlightRequests), Truthful(e, <<>>, requests),
         Ask(d, requests)
  PROVE  IInv' /\ Faithful
<1>1. CancelHeld(d) \in SUBSET Goal /\ Fits(e, CancelHeld(d))
  BY Typed, CancelHeldFits
<1>2. Moves(d, e, CancelHeld(d), <<>>, requests)
  BY <1>1, SilenceIsTruthful DEF Moves, Say, Ask
<1>3. e.last # "SUCCEEDED"
  BY Typed DEF Honest
<1> QED
  BY <1>1, <1>2, <1>3, Advance

LEMMA RequestCancelKeeps ==
  ASSUME IInv, NEW d \in Drones, NEW c \in Broadcasts, ex[d].active,
         RequestCancel(d, [ex[d] EXCEPT !.command = c.command, !.revision = c.revision]),
         Ask(d, <<>>)
  PROVE  IInv' /\ Faithful
<1> DEFINE e == [[ex[d] EXCEPT !.command = c.command, !.revision = c.revision]
                   EXCEPT !.cancel = TRUE]
<1>1. /\ e \in Memory /\ e.cancel /\ e.generation = ex[d].generation
      /\ e.active = ex[d].active /\ e.done = ex[d].done /\ e.legs = ex[d].legs
      /\ e.child = ex[d].child /\ e.requesting = ex[d].requesting
      /\ e.last = ex[d].last
  BY Typed, BroadcastTypes DEF Memory
<1>2. /\ ex' = [ex EXCEPT ![d] = e] /\ goals' = [goals EXCEPT ![d] = CancelHeld(d)]
      /\ Say(d, <<>>)
  BY DEF RequestCancel, Remember
<1> HIDE DEF e
<1> QED
  BY <1>1, <1>2, SilenceIsTruthful, FlagKeeps

LEMMA MissionCommandKeeps ==
  ASSUME IInv, NEW d \in Drones, NEW c \in Broadcasts, OnMissionCommand(d, c)
  PROVE  IInv' /\ Faithful
<1>1. CASE ExecuteCommand(d, c)
  BY <1>1, IgnoreKeeps, RejectKeeps, RepeatKeeps, AcceptKeeps DEF ExecuteCommand
<1>2. CASE CancelRouteRemovedByRevision(d, c)
  BY <1>2, IgnoreKeeps, RequestCancelKeeps DEF CancelRouteRemovedByRevision
<1>3. CASE HandleCancelCommand(d, c)
  BY <1>3, IgnoreKeeps, RequestCancelKeeps DEF HandleCancelCommand
<1> QED
  BY <1>1, <1>2, <1>3 DEF OnMissionCommand

(* The flight command that asks for LAND is the command remembered.        *)
LEMMA FlightCommandKeeps ==
  ASSUME IInv, NEW d \in Drones, NEW c \in Commands, OnFlightCommand(d, c)
  PROVE  IInv' /\ Faithful
<1> DEFINE e == [ex[d] EXCEPT !.command = c.command, !.cancel = @ \/ ex[d].active]
           G == IF ex[d].active THEN CancelHeld(d) ELSE goals[d]
<1>1. c \in Broadcasts /\ c.command \in Nat
  BY CommandsAssumption, BroadcastTypes
<1>2. /\ e \in Memory /\ e.generation = ex[d].generation /\ e.command = c.command
      /\ e.active = ex[d].active /\ e.done = ex[d].done /\ e.legs = ex[d].legs
      /\ e.child = ex[d].child /\ e.requesting = ex[d].requesting
      /\ e.last = ex[d].last /\ e.cancel = (ex[d].cancel \/ ex[d].active)
  BY <1>1, Typed DEF Memory
<1>3. /\ ex' = [ex EXCEPT ![d] = e] /\ goals' = [goals EXCEPT ![d] = G]
      /\ Say(d, <<>>)
  BY Typed DEF OnFlightCommand, Remember
<1>4. PICK requests \in {<<>>, <<RequestOf(c.kind)>>} : Ask(d, requests)
  BY DEF OnFlightCommand
<1>5. RequestOf(c.kind) \in FlightRequests /\ (RequestOf(c.kind) = "LAND" => c.kind = "LAND")
  BY DEF OnFlightCommand, RequestOf, FlightKinds, FlightRequests
<1>6. requests \in Seq(FlightRequests)
  <2>1. <<RequestOf(c.kind)>> \in Seq(FlightRequests)
    BY <1>5
  <2> QED
    BY <1>4, <2>1, SilenceIsTruthful
<1>7. Truthful(e, <<>>, requests)
  BY <1>2, <1>4, <1>5 DEF Truthful
<1> HIDE DEF e
<1>8. CASE ex[d].active
  BY <1>2, <1>3, <1>4, <1>6, <1>7, <1>8, FlagKeeps
<1>9. CASE ~ex[d].active
  <2>1. G = goals[d]
    BY <1>9
  <2>2. Fits(e, goals[d])
    <3>1. Gone(ex[d], goals[d]) /\ ~ex[d].requesting /\ ~ex[d].child /\ ~ex[d].cancel
      BY <1>9, Typed DEF Gone, Fits, CurrentIsKnown, KnownExists, Current
    <3>2. Gone(e, goals[d]) /\ ~e.requesting /\ ~e.child /\ ~e.cancel
      BY <1>2, <1>9, <3>1 DEF Gone, Current
    <3> QED
      BY <3>2, GoneFits
  <2>3. Moves(d, e, goals[d], <<>>, requests)
    BY <1>2, <1>3, <1>4, <1>6, <2>1, Typed, SilenceIsTruthful DEF Moves, Say, Ask
  <2> QED
    BY <1>2, <1>7, <1>9, <2>2, <2>3, Advance
<1> QED
  BY <1>8, <1>9

-----------------------------------------------------------------------------
(* The end of a route: none of its goals is left, or the one left is gone. *)
LEMMA FinishKeeps ==
  ASSUME IInv, NEW d \in Drones, NEW e \in Memory,
         NEW state \in {"SUCCEEDED", "CANCELED", "FAILED"},
         FinishRoute(d, e, state),
         NEW G \in SUBSET Goal, goals' = [goals EXCEPT ![d] = G],
         Gone(e, G),
         ex[d].active /\ ex[d].cancel => state # "SUCCEEDED"
  PROVE  IInv' /\ Faithful
<1> DEFINE f == MakeFeedback(e, d, state)
           h == Finished(e, state)
           requests == IF state = "SUCCEEDED" /\ e.purpose = "LOW_BATTERY_RTH"
                       THEN <<"LAND">> ELSE <<>>
<1>1. state \in FeedbackStates
  BY DEF FeedbackStates, Acceptances, Failures
<1>2. f \in Feedbacks /\ f.state = state
  BY <1>1, FeedbackType
<1>3. /\ h \in Memory /\ ~h.active /\ ~h.cancel /\ ~h.requesting /\ ~h.child
      /\ h.generation = e.generation
  BY <1>1 DEF Finished, Memory, ExecuteKinds
<1>4. /\ ex' = [ex EXCEPT ![d] = h] /\ said' = [said EXCEPT ![d] = <<f>>]
      /\ asked' = [asked EXCEPT ![d] = requests]
  BY DEF FinishRoute, Remember, Say, Ask
<1>5. requests \in Seq(FlightRequests)
  <2>1. <<"LAND">> \in Seq(FlightRequests)
    BY DEF FlightRequests
  <2> QED
    BY <2>1, SilenceIsTruthful
<1>6. state # "SUCCEEDED" => requests = <<>>
  OBVIOUS
<1> HIDE DEF f, h, requests
<1>7. <<f>> \in Seq(Feedbacks)
  BY <1>2
<1>8. state # "SUCCEEDED" => Truthful(h, <<f>>, requests)
  BY <1>2, <1>6, MessageIsTruthful
<1>9. Fits(h, G)
  <2>1. Gone(h, G)
    BY <1>3 DEF Gone, Current
  <2> QED
    BY <1>3, <2>1, GoneFits
<1>10. Moves(d, h, G, <<f>>, requests)
  BY <1>3, <1>4, <1>5, <1>7 DEF Moves
<1> QED
  BY <1>3, <1>8, <1>9, <1>10, Advance

(* Goals of earlier generations have been told to cancel.                  *)
LEMMA OldGoals ==
  ASSUME NEW e \in Memory, NEW G \in SUBSET Goal, Fits(e, G),
         NEW g \in G, ~Current(e, g)
  PROVE  g.generation <= e.generation /\ (g.stage = "running" => g.cancel)
BY DEF Fits, CurrentIsKnown

(* The timer sends the next leg only when nothing is outstanding.          *)
LEMMA SendKeeps ==
  ASSUME IInv, NEW d \in Drones, NEW e \in Memory,
         e.active, ex[d].active, ~ex[d].requesting, ~ex[d].child, ~ex[d].cancel,
         e = [ex[d] EXCEPT !.requesting = TRUE], e.done < e.legs,
         ex' = [ex EXCEPT ![d] = e],
         goals' = [goals EXCEPT ![d] = @ \cup
           {[generation |-> e.generation, leg |-> e.done,
             stage |-> "offered", cancel |-> FALSE]}],
         Say(d, <<>>), Ask(d, <<>>)
  PROVE  IInv' /\ Faithful
<1> DEFINE new == [generation |-> e.generation, leg |-> e.done,
                   stage |-> "offered", cancel |-> FALSE]
           G == goals[d] \cup {new}
<1>1. /\ new \in Goal /\ new.generation = e.generation /\ new.leg = e.done
      /\ new.stage = "offered"
  BY DEF Goal, Memory
<1>2. /\ e.generation = ex[d].generation /\ e.requesting /\ ~e.child /\ ~e.cancel
      /\ e.last = ex[d].last
  BY Typed DEF Memory
<1>3. goals' = [goals EXCEPT ![d] = G]
  BY DEF IInv, TypeOK
<1>4. ASSUME NEW g \in goals[d]
      PROVE  ~Current(e, g) /\ g.generation <= e.generation /\ (g.stage = "running" => g.cancel)
  <2>1. g \in Goal
    BY Typed
  <2>2. ~Current(ex[d], g)
    BY <2>1, Typed DEF Fits, CurrentIsKnown, Goal
  <2> QED
    BY <1>2, <2>2, Typed, OldGoals DEF Current
<1> HIDE DEF new
<1>5. Fits(e, G)
  BY <1>1, <1>2, <1>4, Typed DEF Fits, OneCurrent, CurrentIsKnown, KnownExists, Current, Memory
<1>6. Moves(d, e, G, <<>>, <<>>)
  BY <1>1, <1>3, Typed, SilenceIsTruthful DEF Moves, Say, Ask
<1>7. e.last # "SUCCEEDED"
  BY <1>2, Typed DEF Honest
<1> QED
  BY <1>5, <1>6, <1>7, SilenceIsTruthful, Advance

LEMMA TimerKeeps ==
  ASSUME IInv, NEW d \in Drones, NEW late \in BOOLEAN, OnTimer(d, late)
  PROVE  IInv' /\ Faithful
<1> DEFINE e == [ex[d] EXCEPT !.cancel = @ \/ Overdue(d, late)]
           waiting == e.requesting \/ e.child
<1>1. /\ e \in Memory /\ e.generation = ex[d].generation
      /\ e.active = ex[d].active /\ e.done = ex[d].done /\ e.legs = ex[d].legs
      /\ e.child = ex[d].child /\ e.requesting = ex[d].requesting
      /\ e.last = ex[d].last /\ e.cancel = (ex[d].cancel \/ Overdue(d, late))
  <2>1. Overdue(d, late) \in BOOLEAN
    BY Typed DEF Overdue, Memory
  <2> QED
    BY <2>1, Typed DEF Memory
<1>2. /\ e.active
      /\ \/ e.cancel /\ ~waiting /\ FinishRoute(d, e, "CANCELED") /\ UNCHANGED goals
         \/ Flown(e) /\ FinishRoute(d, e, "SUCCEEDED") /\ UNCHANGED goals
         \/ /\ Overdue(d, late) /\ waiting /\ Remember(d, e)
            /\ goals' = [goals EXCEPT ![d] = CancelHeld(d)]
            /\ Say(d, <<>>) /\ Ask(d, <<>>)
         \/ /\ ~e.cancel /\ e.done < e.legs /\ ~waiting
            /\ Remember(d, [e EXCEPT !.requesting = TRUE])
            /\ goals' = [goals EXCEPT ![d] = @ \cup
                 {[generation |-> e.generation, leg |-> e.done,
                   stage |-> "offered", cancel |-> FALSE]}]
            /\ Say(d, <<>>) /\ Ask(d, <<>>)
  BY DEF OnTimer
<1>3. ~e.cancel => e = ex[d]
  BY <1>1, Typed DEF Memory
<1> HIDE DEF e
<1>4. UNCHANGED goals => goals' = [goals EXCEPT ![d] = goals[d]]
  BY Typed
<1>5. ASSUME ~(ex[d].requesting \/ ex[d].child) \/ ~(ex[d].done < ex[d].legs)
      PROVE  Gone(e, goals[d])
  <2>1. \A g \in goals[d] : ~Current(ex[d], g)
    BY <1>5, Typed DEF Fits, CurrentIsKnown
  <2>2. Gone(ex[d], goals[d])
    BY <2>1, Typed, OldGoals DEF Gone
  <2> QED
    BY <1>1, <2>2 DEF Gone, Current
<1>6. CASE e.cancel /\ ~waiting /\ FinishRoute(d, e, "CANCELED") /\ UNCHANGED goals
  <2>1. Gone(e, goals[d])
    BY <1>1, <1>5, <1>6
  <2> QED
    BY <1>1, <1>4, <1>6, <2>1, Typed, FinishKeeps
<1>7. CASE Flown(e) /\ FinishRoute(d, e, "SUCCEEDED") /\ UNCHANGED goals
  <2>1. ~ex[d].cancel /\ ~(ex[d].done < ex[d].legs)
    BY <1>1, <1>7, Typed DEF Flown, Memory
  <2>2. Gone(e, goals[d])
    BY <1>5, <2>1
  <2> QED
    BY <1>1, <1>4, <1>7, <2>1, <2>2, Typed, FinishKeeps
<1>8. CASE /\ Overdue(d, late) /\ waiting /\ Remember(d, e)
           /\ goals' = [goals EXCEPT ![d] = CancelHeld(d)]
           /\ Say(d, <<>>) /\ Ask(d, <<>>)
  BY <1>1, <1>2, <1>8, SilenceIsTruthful, FlagKeeps DEF Remember
<1>9. CASE /\ ~e.cancel /\ e.done < e.legs /\ ~waiting
           /\ Remember(d, [e EXCEPT !.requesting = TRUE])
           /\ goals' = [goals EXCEPT ![d] = @ \cup
                {[generation |-> e.generation, leg |-> e.done,
                  stage |-> "offered", cancel |-> FALSE]}]
           /\ Say(d, <<>>) /\ Ask(d, <<>>)
  <2> DEFINE h == [ex[d] EXCEPT !.requesting = TRUE]
  <2>1. /\ h \in Memory /\ h.active /\ h.done = ex[d].done /\ h.legs = ex[d].legs
        /\ h.generation = ex[d].generation
    BY <1>1, <1>2, Typed DEF Memory
  <2>2. /\ ex' = [ex EXCEPT ![d] = h]
        /\ goals' = [goals EXCEPT ![d] = @ \cup
             {[generation |-> h.generation, leg |-> h.done,
               stage |-> "offered", cancel |-> FALSE]}]
    BY <1>3, <1>9, <2>1 DEF Remember
  <2>3. h.done < h.legs /\ ~ex[d].requesting /\ ~ex[d].child /\ ~ex[d].cancel /\ ex[d].active
    BY <1>1, <1>2, <1>9, <2>1
  <2>4. h = [ex[d] EXCEPT !.requesting = TRUE]
    OBVIOUS
  <2> HIDE DEF h
  <2> QED
    BY <1>9, <2>1, <2>2, <2>3, <2>4, SendKeeps
<1> QED
  BY <1>2, <1>6, <1>7, <1>8, <1>9

-----------------------------------------------------------------------------
(* The answers of the action server.                                       *)
LEMMA AcceptedKeeps ==
  ASSUME IInv, NEW d \in Drones, NEW g \in goals[d], OnGoalAccepted(d, g)
  PROVE  IInv' /\ Faithful
<1> DEFINE new == [g EXCEPT !.stage = "running", !.cancel = LateCancel(d, g)]
           e == IF Serves(d, g)
                THEN [ex[d] EXCEPT !.requesting = FALSE, !.child = TRUE] ELSE ex[d]
           G == (goals[d] \ {g}) \cup {new}
<1>1. LateCancel(d, g) \in BOOLEAN /\ g \in Goal
  BY Typed DEF LateCancel, Serves, Memory
<1>2. /\ new \in Goal /\ new.generation = g.generation /\ new.leg = g.leg
      /\ new.stage = "running" /\ new.cancel = LateCancel(d, g)
  BY <1>1 DEF Goal
<1>3. /\ e \in Memory /\ e.generation = ex[d].generation /\ e.active = ex[d].active
      /\ e.done = ex[d].done /\ e.legs = ex[d].legs /\ e.cancel = ex[d].cancel
      /\ e.last = ex[d].last /\ e.command = ex[d].command
      /\ IF Serves(d, g) THEN e.child /\ ~e.requesting ELSE e = ex[d]
  BY Typed DEF Memory
<1>4. goals' = [goals EXCEPT ![d] = G] /\ ex' = [ex EXCEPT ![d] = e]
  BY Typed DEF OnGoalAccepted, Remember
<1> HIDE DEF new, e
<1>5. Moves(d, e, G, <<>>, <<>>)
  BY <1>2, <1>3, <1>4, Typed, SilenceIsTruthful DEF Moves, Say, Ask, OnGoalAccepted
<1>6. g.stage = "offered"
  BY DEF OnGoalAccepted
<1>7. Fits(e, G)
  <2>1. CASE Serves(d, g)
    <3>1. Current(ex[d], g)
      BY <2>1 DEF Serves, Current
    <3>2. ASSUME NEW h \in goals[d] \ {g}
          PROVE  ~Current(ex[d], h)
      BY <3>1, Typed DEF Fits, OneCurrent
    <3>3. /\ g.leg = ex[d].done /\ ex[d].done < ex[d].legs /\ ex[d].active
          /\ g.generation <= ex[d].generation
      BY <3>1, Typed DEF Fits, CurrentIsKnown
    <3>4. ASSUME NEW h \in goals[d] \ {g}
          PROVE  /\ h.generation <= ex[d].generation
                 /\ h.stage = "running" => h.cancel
      BY <3>2, Typed, OldGoals
    <3>5. ~new.cancel => ~e.cancel
      BY <1>2, <1>3 DEF LateCancel
    <3>6. OneCurrent(e, G)
      BY <1>3, <3>2 DEF OneCurrent, Current
    <3>7. CurrentIsKnown(e, G)
      BY <1>2, <1>3, <2>1, <3>1, <3>2, <3>3, <3>4, <3>5 DEF CurrentIsKnown, Current
    <3>8. KnownExists(e, G)
      BY <1>2, <1>3, <2>1, <3>1 DEF KnownExists, Current
    <3> QED
      BY <1>3, <3>3, <3>6, <3>7, <3>8, Typed DEF Fits
  <2>2. CASE ~Serves(d, g)
    <3>1. ~Current(ex[d], g)
      BY <2>2, Typed DEF Serves, Current, Fits, CurrentIsKnown
    <3>2. new.cancel
      BY <1>2, <2>2 DEF LateCancel
    <3>3. e = ex[d] /\ g.generation <= ex[d].generation
      BY <1>3, <2>2, Typed DEF Fits, CurrentIsKnown
    <3>4. OneCurrent(ex[d], G)
      BY <1>2, <3>1, Typed DEF Fits, OneCurrent, Current
    <3>5. CurrentIsKnown(ex[d], G)
      BY <1>2, <3>1, <3>2, <3>3, Typed DEF Fits, CurrentIsKnown, Current
    <3>6. KnownExists(ex[d], G)
      BY <1>2, <3>1, Typed DEF Fits, KnownExists, Current
    <3> QED
      BY <3>3, <3>4, <3>5, <3>6, Typed DEF Fits
  <2> QED
    BY <2>1, <2>2
<1>8. e.active => e.last # "SUCCEEDED"
  BY <1>3, Typed DEF Honest
<1> QED
  BY <1>5, <1>7, <1>8, SilenceIsTruthful, Advance

(* A goal that does not serve the route is dropped without a word.         *)
LEMMA DropKeeps ==
  ASSUME IInv, NEW d \in Drones, NEW g \in goals[d], ~Serves(d, g),
         Drop(d, g), UNCHANGED ex, Say(d, <<>>), Ask(d, <<>>)
  PROVE  IInv' /\ Faithful
<1> DEFINE G == goals[d] \ {g}
<1>1. ~Current(ex[d], g)
  BY Typed DEF Serves, Current, Fits, CurrentIsKnown
<1>2. goals' = [goals EXCEPT ![d] = G]
  BY Typed DEF Drop
<1>3. Fits(ex[d], G)
  BY <1>1, Typed DEF Fits, OneCurrent, CurrentIsKnown, KnownExists
<1>4. Moves(d, ex[d], G, <<>>, <<>>)
  BY <1>2, Typed, SilenceIsTruthful DEF Moves, Say, Ask
<1> QED
  BY <1>3, <1>4, Typed, SilenceIsTruthful, Advance DEF Honest

(* Without the goal it serves, a route has none.                           *)
LEMMA Rest ==
  ASSUME IInv, NEW d \in Drones, NEW g \in goals[d], Serves(d, g)
  PROVE  Gone(ex[d], goals[d] \ {g})
<1>1. Current(ex[d], g)
  BY DEF Serves, Current
<1>2. \A h \in goals[d] \ {g} : ~Current(ex[d], h)
  BY <1>1, Typed DEF Fits, OneCurrent
<1> QED
  BY <1>2, Typed, OldGoals DEF Gone

LEMMA RejectedKeeps ==
  ASSUME IInv, NEW d \in Drones, NEW g \in goals[d], OnGoalRejected(d, g)
  PROVE  IInv' /\ Faithful
<1>1. CASE ~Serves(d, g)
  BY <1>1, DropKeeps DEF OnGoalRejected
<1>2. CASE Serves(d, g)
  <2> DEFINE G == goals[d] \ {g}
  <2>1. G \in SUBSET Goal /\ goals' = [goals EXCEPT ![d] = G]
    BY Typed DEF OnGoalRejected, Drop
  <2>2. FinishRoute(d, ex[d], "FAILED")
    BY <1>2 DEF OnGoalRejected
  <2>3. Gone(ex[d], G) /\ "FAILED" \in {"SUCCEEDED", "CANCELED", "FAILED"}
    BY <1>2, Rest
  <2> HIDE DEF G
  <2> QED
    BY <2>1, <2>2, <2>3, Typed, FinishKeeps
<1> QED
  BY <1>1, <1>2

LEMMA GoalFeedbackKeeps ==
  ASSUME IInv, NEW d \in Drones, NEW g \in goals[d], OnGoalFeedback(d, g)
  PROVE  IInv' /\ Faithful
<1> DEFINE e == [ex[d] EXCEPT !.last = "EXECUTING"]
           f == MakeFeedback(ex[d], d, "EXECUTING")
<1>1. "EXECUTING" \in FeedbackStates
  BY DEF FeedbackStates, Acceptances
<1>2. /\ e \in Memory /\ e.last = "EXECUTING" /\ e.generation = ex[d].generation
      /\ e.active = ex[d].active /\ e.done = ex[d].done /\ e.legs = ex[d].legs
      /\ e.requesting = ex[d].requesting /\ e.child = ex[d].child
      /\ e.cancel = ex[d].cancel
  BY <1>1, Typed DEF Memory
<1>3. f \in Feedbacks /\ f.state = "EXECUTING"
  BY <1>1, Typed, FeedbackType
<1>4. /\ ex' = [ex EXCEPT ![d] = e] /\ said' = [said EXCEPT ![d] = <<f>>]
      /\ Ask(d, <<>>) /\ UNCHANGED goals
  BY DEF OnGoalFeedback, Remember, Say
<1> HIDE DEF e, f
<1>5. Truthful(e, <<f>>, <<>>) /\ <<f>> \in Seq(Feedbacks)
  BY <1>3, MessageIsTruthful
<1>6. Fits(e, goals[d])
  BY <1>2, Typed DEF Fits, OneCurrent, CurrentIsKnown, KnownExists, Current
<1>7. Moves(d, e, goals[d], <<f>>, <<>>)
  BY <1>2, <1>4, <1>5, Typed, SilenceIsTruthful DEF Moves, Ask
<1> QED
  BY <1>2, <1>5, <1>6, <1>7, Advance

LEMMA ResultKeeps ==
  ASSUME IInv, NEW d \in Drones, NEW g \in goals[d], NEW succeeded \in BOOLEAN,
         OnGoalResult(d, g, succeeded)
  PROVE  IInv' /\ Faithful
<1> DEFINE G == goals[d] \ {g}
<1>1. G \in SUBSET Goal /\ goals' = [goals EXCEPT ![d] = G] /\ g.stage = "running"
  BY Typed DEF OnGoalResult, Drop
<1>2. CASE ~Serves(d, g)
  BY <1>2, DropKeeps DEF OnGoalResult
<1>3. Serves(d, g) => Gone(ex[d], G)
  BY Rest
<1> HIDE DEF G
<1>4. CASE Serves(d, g) /\ ~succeeded
  <2> DEFINE e == [ex[d] EXCEPT !.child = FALSE]
             state == IF ex[d].cancel THEN "CANCELED" ELSE "FAILED"
  <2>1. e \in Memory /\ e.generation = ex[d].generation
    BY Typed DEF Memory
  <2>2. FinishRoute(d, e, state)
    BY <1>4 DEF OnGoalResult
  <2>3. state \in {"SUCCEEDED", "CANCELED", "FAILED"} /\ state # "SUCCEEDED"
    OBVIOUS
  <2> HIDE DEF e, state
  <2>4. Gone(e, G)
    BY <1>3, <1>4, <2>1 DEF Gone, Current
  <2> QED
    BY <1>1, <2>1, <2>2, <2>3, <2>4, FinishKeeps
<1>5. CASE Serves(d, g) /\ succeeded
  <2> DEFINE e == [ex[d] EXCEPT !.child = FALSE, !.done = @ + 1]
  <2>1. Current(ex[d], g) /\ ex[d].child
    BY <1>1, <1>5, Typed DEF Serves, Current, Fits, CurrentIsKnown
  <2>2. ~ex[d].requesting
    BY <1>1, <2>1, Typed DEF Fits, OneCurrent, KnownExists
  <2>3. /\ e \in Memory /\ e.generation = ex[d].generation /\ e.active = ex[d].active
        /\ e.cancel = ex[d].cancel /\ e.last = ex[d].last
        /\ ~e.child /\ e.requesting = ex[d].requesting
    <3>1. ex[d].done + 1 \in Nat
      BY Typed DEF Memory
    <3> QED
      BY <3>1, Typed DEF Memory
  <2>4. ex' = [ex EXCEPT ![d] = e] /\ Say(d, <<>>) /\ Ask(d, <<>>)
    BY <1>5 DEF OnGoalResult, Remember
  <2> HIDE DEF e
  <2>5. Fits(e, G)
    <3>1. Gone(e, G)
      BY <1>3, <1>5, <2>3 DEF Gone, Current
    <3>2. e.cancel => e.active
      BY <2>3, Typed DEF Fits
    <3> QED
      BY <2>2, <2>3, <3>1, <3>2, GoneFits
  <2>6. Moves(d, e, G, <<>>, <<>>)
    BY <1>1, <2>3, <2>4, SilenceIsTruthful DEF Moves, Say, Ask
  <2>7. e.active => e.last # "SUCCEEDED"
    BY <2>3, Typed DEF Honest
  <2> QED
    BY <2>5, <2>6, <2>7, SilenceIsTruthful, Advance
<1> QED
  BY <1>2, <1>4, <1>5

LEMMA RestartKeeps ==
  ASSUME IInv, NEW d \in Drones, Restart(d)
  PROVE  IInv' /\ Faithful
<1>1. Idle \in Memory /\ ~Idle.active /\ Fits(Idle, {})
  BY DEF Idle, Memory, ExecuteKinds, Fits, OneCurrent, CurrentIsKnown, KnownExists
<1>2. Moves(d, Idle, {}, <<>>, <<>>)
  BY <1>1, SilenceIsTruthful DEF Moves, Restart, Remember, Say, Ask
<1> QED
  BY <1>1, <1>2, SilenceIsTruthful, Advance

-----------------------------------------------------------------------------
LEMMA Beginning == Init => IInv
<1> SUFFICES ASSUME Init PROVE IInv
  OBVIOUS
<1>1. TypeOK
  BY SilenceIsTruthful DEF Init, TypeOK, Idle, Memory, ExecuteKinds
<1>2. ASSUME NEW d \in Drones
      PROVE  Fits(ex[d], goals[d]) /\ Honest(ex[d], said[d], asked[d])
  <2>1. ex[d] = Idle /\ goals[d] = {}
    BY DEF Init
  <2> QED
    BY <2>1 DEF Idle, Fits, OneCurrent, CurrentIsKnown, KnownExists, Honest
<1> QED
  BY <1>1, <1>2 DEF IInv

LEMMA StepKeeps == IInv /\ Next => IInv' /\ Faithful
<1> SUFFICES ASSUME IInv, Next PROVE IInv' /\ Faithful
  OBVIOUS
<1>1. PICK d \in Drones : Local(d) \/ Deliveries(d) \/ Restart(d)
  BY DEF Next
<1>2. CASE Local(d)
  <2>1. CASE \E late \in BOOLEAN : OnTimer(d, late)
    BY <2>1, TimerKeeps
  <2>2. ASSUME NEW g \in goals[d], OnGoalAccepted(d, g) PROVE IInv' /\ Faithful
    BY <2>2, AcceptedKeeps
  <2>3. ASSUME NEW g \in goals[d], OnGoalRejected(d, g) PROVE IInv' /\ Faithful
    BY <2>3, RejectedKeeps
  <2>4. ASSUME NEW g \in goals[d], OnGoalFeedback(d, g) PROVE IInv' /\ Faithful
    BY <2>4, GoalFeedbackKeeps
  <2>5. ASSUME NEW g \in goals[d], NEW succeeded \in BOOLEAN,
               OnGoalResult(d, g, succeeded)
        PROVE  IInv' /\ Faithful
    BY <2>5, ResultKeeps
  <2> QED
    BY <1>2, <2>1, <2>2, <2>3, <2>4, <2>5 DEF Local
<1>3. CASE Deliveries(d)
  <2>1. \A c \in Commands : c \in Broadcasts
    BY CommandsAssumption
  <2> QED
    BY <1>3, <2>1, MissionCommandKeeps, FlightCommandKeeps DEF Deliveries
<1>4. CASE Restart(d)
  BY <1>4, RestartKeeps
<1> QED
  BY <1>1, <1>2, <1>3, <1>4

LEMMA StutterKeeps == IInv /\ UNCHANGED vars => IInv'
BY DEF IInv, TypeOK, vars, Fits, OneCurrent, CurrentIsKnown, KnownExists, Current,
       Honest, Truthful

LEMMA Invariance == Spec => []IInv
<1>1. IInv /\ [Next]_vars => IInv'
  BY StepKeeps, StutterKeeps
<1> QED
  BY <1>1, Beginning, PTL DEF Spec

(* The node's memory, its goals and what it publishes keep their types.    *)
THEOREM ExecutorTypes == Spec => []TypeOK
<1>1. IInv => TypeOK
  BY DEF IInv
<1> QED
  BY <1>1, Invariance, PTL

(* No goal flies on for a route that was replaced, preempted, timed out or *)
(* finished (onMissionCommand, onFlightCommand, finishRoute and the goal   *)
(* responses), whatever the order of broadcasts and answers.               *)
THEOREM NoGoalIsOrphaned == Spec => []NoOrphanGoal
<1>1. IInv => NoOrphanGoal
  <2> SUFFICES ASSUME IInv, NEW d \in Drones, NEW g \in goals[d],
                      g.stage = "running", ~g.cancel
               PROVE  /\ ex[d].active /\ ex[d].child /\ ~ex[d].cancel
                      /\ g.generation = ex[d].generation /\ g.leg = ex[d].done
    BY DEF NoOrphanGoal
  <2>1. Current(ex[d], g) /\ ~ex[d].cancel
    BY Typed DEF Fits, CurrentIsKnown
  <2> QED
    BY <2>1, Typed DEF Fits, CurrentIsKnown, Current
<1> QED
  BY <1>1, Invariance, PTL

(* What the node believes outstanding is outstanding, once and in the      *)
(* stage it believes: navigate_request_in_progress_ and child_goal_handle_ *)
(* never name a goal that is gone, and none is forgotten.                  *)
THEOREM NodeWaitsForRealGoals == Spec => []WaitsForRealGoals
<1>1. IInv => WaitsForRealGoals
  <2> SUFFICES ASSUME IInv, NEW d \in Drones
               PROVE  LET mine(stage) == {g \in goals[d] : Serves(d, g) /\ g.stage = stage}
                      IN  /\ ex[d].requesting => \E g \in goals[d] : mine("offered") = {g}
                          /\ ex[d].child => \E g \in goals[d] : mine("running") = {g}
                          /\ ex[d].active /\ ~ex[d].requesting => mine("offered") = {}
                          /\ ex[d].active /\ ~ex[d].child => mine("running") = {}
                          /\ ~(ex[d].requesting /\ ex[d].child)
    BY DEF WaitsForRealGoals
  <2>1. \A g \in goals[d] : Serves(d, g) <=> Current(ex[d], g)
    BY Typed DEF Serves, Current, Fits, CurrentIsKnown
  <2>2. \A g \in goals[d] :
          Current(ex[d], g) => IF g.stage = "offered" THEN ex[d].requesting ELSE ex[d].child
    BY Typed DEF Fits, CurrentIsKnown
  <2>3. \A g, h \in goals[d] : Current(ex[d], g) /\ Current(ex[d], h) => g = h
    BY Typed DEF Fits, OneCurrent
  <2>4. /\ ex[d].requesting => \E g \in goals[d] : Current(ex[d], g) /\ g.stage = "offered"
        /\ ex[d].child => \E g \in goals[d] : Current(ex[d], g) /\ g.stage = "running"
    BY Typed DEF Fits, KnownExists
  <2> QED
    BY <2>1, <2>2, <2>3, <2>4
<1> QED
  BY <1>1, Invariance, PTL

(* A route that was canceled, preempted or timed out never reports success *)
(* and so never triggers the LAND of a low-battery return (finishRoute).   *)
THEOREM CanceledRoutesNeverSucceed == Spec => CanceledNeverSucceeds
<1> DEFINE A == \A d \in Drones :
       ex[d].active /\ ex[d].cancel =>
         /\ \A i \in DOMAIN said'[d] : said'[d][i].state # "SUCCEEDED"
         /\ \A i \in DOMAIN asked'[d] : asked'[d][i] = "LAND" =>
              \E c \in Commands : c.kind = "LAND" /\ c.command = ex'[d].command
<1>1. IInv /\ [Next]_vars => [A]_vars
  BY StepKeeps DEF Faithful, Truthful
<1> QED
  BY <1>1, Invariance, PTL DEF Spec, CanceledNeverSucceeds

-----------------------------------------------------------------------------
(* The swarm member's node.                                                *)

VARIABLES me, heard

Member == INSTANCE SwarmMember

(* The memory after a timer callback's battery check is a memory again, of *)
(* the same process.                                                       *)
LEMMA BatterySafetyType ==
  ASSUME NEW e \in Member!Memory, NEW r \in Member!Reports,
         NEW c \in Member!Conditions
  PROVE  Member!BatterySafety(e, r, c) \in Member!Memory
<1>1. Member!FallsBack(e, r, c) \in BOOLEAN
  BY DEF Member!FallsBack, Member!Memory, Member!Reports, Member!Conditions
<1> QED
  BY <1>1 DEF Member!BatterySafety, Member!Memory, Member!BatteryStates, Member!Unlatched

(* What a battery check decides it acts upon, from a memory that says so.  *)
Sound(e) ==
  /\ e.emergency => e.latched /\ e.landSent
  /\ e.latched <=> e.battery # "NORMAL"
  /\ e.acked \/ e.fallback \/ e.landSent => e.latched

LEMMA BatterySafetySound ==
  ASSUME NEW e \in Member!Memory, Sound(e), NEW r \in Member!Reports,
         NEW c \in Member!Conditions
  PROVE  Sound(Member!BatterySafety(e, r, c))
<1>1. Member!FallsBack(e, r, c) \in BOOLEAN
  BY DEF Member!FallsBack, Member!Memory, Member!Reports, Member!Conditions
<1>2. CASE r.battery = "unknown"
  BY <1>2 DEF Member!BatterySafety, Sound, Member!Memory
<1>3. CASE r.battery # "unknown" /\ Member!Recovers(e, r)
  BY <1>3 DEF Member!BatterySafety, Sound, Member!Memory, Member!Unlatched
<1>4. CASE /\ r.battery # "unknown" /\ ~Member!Recovers(e, r)
           /\ e.emergency \/ r.battery = "emergency"
  BY <1>4 DEF Member!BatterySafety, Sound, Member!Memory
<1>5. CASE /\ r.battery # "unknown" /\ ~Member!Recovers(e, r)
           /\ ~(e.emergency \/ r.battery = "emergency")
  BY <1>1, <1>5 DEF Member!BatterySafety, Sound, Member!Memory
<1> QED
  BY <1>2, <1>3, <1>4, <1>5

MemberInv == Member!TypeOK /\ \A d \in Member!Drones : Sound(me[d])

LEMMA MemberStarts == Member!Init => MemberInv
BY DEF Member!Init, MemberInv, Member!TypeOK, Sound, Member!Booted, Member!Memory,
       Member!BatteryStates, Member!Reports, Member!Levels

LEMMA MemberTimerKeeps ==
  ASSUME MemberInv, NEW d \in Member!Drones,
         NEW c \in Member!Conditions, Member!OnTimer(d, c)
  PROVE  MemberInv'
<1> DEFINE e == Member!BatterySafety(me[d], heard[d], c)
           f == [e EXCEPT !.requesting = @ \/ Member!Registers(e, c)]
<1>1. me[d] \in Member!Memory /\ heard[d] \in Member!Reports /\ Sound(me[d])
  BY DEF MemberInv, Member!TypeOK
<1>2. e \in Member!Memory /\ Sound(e)
  BY <1>1, BatterySafetyType, BatterySafetySound
<1>3. Member!Registers(e, c) \in BOOLEAN
  BY <1>2 DEF Member!Registers, Member!Conditions, Member!Memory
<1>4. f \in Member!Memory /\ Sound(f)
  <2> HIDE DEF e
  <2> QED
    BY <1>2, <1>3 DEF Member!Memory, Sound
<1>5. me' = [me EXCEPT ![d] = f] /\ heard' = heard
  BY DEF Member!OnTimer
<1> HIDE DEF e, f
<1> QED
  BY <1>4, <1>5 DEF MemberInv, Member!TypeOK

LEMMA MemberStateKeeps ==
  ASSUME MemberInv, NEW d \in Member!Drones,
         NEW r \in Member!Reports, NEW localized \in BOOLEAN,
         Member!OnState(d, r, localized)
  PROVE  MemberInv'
BY DEF MemberInv, Member!TypeOK, Member!OnState, Sound, Member!Memory

LEMMA MemberCommandKeeps ==
  ASSUME MemberInv, NEW d \in Member!Drones,
         NEW c \in Member!Broadcasts, Member!OnMissionCommand(d, c)
  PROVE  MemberInv'
<1>1. Member!Acknowledges(d, c) \in BOOLEAN
  BY DEF Member!Acknowledges
<1> QED
  BY <1>1 DEF MemberInv, Member!TypeOK, Member!OnMissionCommand, Sound, Member!Memory

LEMMA MemberResponseKeeps ==
  ASSUME MemberInv, NEW d \in Member!Drones,
         NEW accepted \in BOOLEAN, Member!OnResponse(d, accepted)
  PROVE  MemberInv'
<1> DEFINE f == [me[d] EXCEPT !.requesting = FALSE, !.registered = accepted]
<1>1. me[d] \in Member!Memory /\ Sound(me[d])
  BY DEF MemberInv, Member!TypeOK
<1>2. f \in Member!Memory /\ Sound(f)
  BY <1>1 DEF Member!Memory, Sound
<1>3. me' = [me EXCEPT ![d] = f] /\ heard' = heard
  BY DEF Member!OnResponse, MemberInv, Member!TypeOK
<1> HIDE DEF f
<1> QED
  BY <1>2, <1>3 DEF MemberInv, Member!TypeOK

LEMMA MemberRestartKeeps ==
  ASSUME MemberInv, NEW d \in Member!Drones, Member!Restart(d)
  PROVE  MemberInv'
<1> DEFINE e == Member!Booted(me[d].boot + 1)
           r == [battery |-> "unknown", armed |-> FALSE]
<1>1. me[d].boot \in Nat
  BY DEF MemberInv, Member!TypeOK, Member!Memory
<1>2. e \in Member!Memory /\ Sound(e)
  BY <1>1 DEF Member!Booted, Member!Memory, Sound, Member!BatteryStates
<1>3. r \in Member!Reports
  BY DEF Member!Reports, Member!Levels
<1>4. me' = [me EXCEPT ![d] = e] /\ heard' = [heard EXCEPT ![d] = r]
  BY DEF Member!Restart
<1> HIDE DEF e, r
<1> QED
  BY <1>2, <1>3, <1>4 DEF MemberInv, Member!TypeOK

LEMMA MemberStepKeeps == MemberInv /\ [Member!Next]_<<me, heard>> => MemberInv'
<1> SUFFICES ASSUME MemberInv, [Member!Next]_<<me, heard>> PROVE MemberInv'
  OBVIOUS
<1>1. CASE UNCHANGED <<me, heard>>
  BY <1>1 DEF MemberInv, Member!TypeOK, Sound
<1>2. ASSUME NEW d \in Member!Drones, NEW c \in Member!Conditions,
             Member!OnTimer(d, c)
      PROVE  MemberInv'
  BY <1>2, MemberTimerKeeps
<1>3. ASSUME NEW d \in Member!Drones, NEW r \in Member!Reports, NEW localized \in BOOLEAN,
             Member!OnState(d, r, localized)
      PROVE  MemberInv'
  BY <1>3, MemberStateKeeps
<1>4. ASSUME NEW d \in Member!Drones, NEW c \in Member!Broadcasts, Member!OnMissionCommand(d, c)
      PROVE  MemberInv'
  BY <1>4, MemberCommandKeeps
<1>5. ASSUME NEW d \in Member!Drones, NEW accepted \in BOOLEAN, Member!OnResponse(d, accepted)
      PROVE  MemberInv'
  BY <1>5, MemberResponseKeeps
<1>6. ASSUME NEW d \in Member!Drones, Member!Restart(d) PROVE MemberInv'
  BY <1>6, MemberRestartKeeps
<1> QED
  BY <1>1, <1>2, <1>3, <1>4, <1>5, <1>6 DEF Member!Next

(* The node's memory and the last vehicle state keep their types.          *)
THEOREM MemberTypes == Member!Spec => []Member!TypeOK
<1>1. MemberInv => Member!TypeOK
  BY DEF MemberInv
<1> QED
  BY <1>1, MemberStarts, MemberStepKeeps, PTL DEF Member!Spec

(* What a node decides about a failing battery it has acted upon: under an *)
(* emergency latch LAND has been sent, and no answer or fallback outlives  *)
(* the latch it belongs to, in whatever order states, commands, answers    *)
(* and restarts come (updateBatterySafety, onMissionCommand).              *)
THEOREM MemberActs == Member!Spec => []Member!LatchIsActedUpon
<1>1. MemberInv => Member!LatchIsActedUpon
  BY DEF MemberInv, Sound, Member!LatchIsActedUpon
<1> QED
  BY <1>1, MemberStarts, MemberStepKeeps, PTL DEF Member!Spec
=============================================================================
