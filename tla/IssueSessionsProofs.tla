------------------------ MODULE IssueSessionsProofs -------------------------
(***************************************************************************)
(* Theorems about the durable session of an issue, for any bounds.  IInv   *)
(* is inductive.  Most actions of IssueSessions have one of three shapes:  *)
(* a turn begins, a generation moves on (perhaps with one of its turns),   *)
(* or both stay; one lemma per shape shows that IInv is kept, one lemma    *)
(* per action shows its shape.                                             *)
(***************************************************************************)
EXTENDS IssueSessions, TLAPS

\* Turns and generations that do not exist yet are blank; a turn that exists
\* belongs to a generation that exists.
TurnsInPlace ==
  \A t \in Turns : IF turns[t].status = "absent" THEN turns[t] = NoTurn
                   ELSE turns[t].gen \in Generations /\ gens[turns[t].gen].status # "absent"

\* Generations are created in their order.
GensInOrder ==
  \A g, h \in Generations :
    g < h /\ gens[h].status # "absent" => gens[g].status # "absent"

\* The active generation is the newest.
ActiveIsNewest ==
  /\ session.status # "absent" =>
       session.active \in Generations /\ gens[session.active].status # "absent"
  /\ \A g \in Generations : gens[g].status # "absent" =>
       session.status # "absent" /\ g <= session.active

PublishedTurnsExist ==
  \A t \in Turns : <<"publish", t>> \in intents => turns[t].status # "absent"

ReviewedExist ==
  \A g \in Generations, v \in {"left", "exhausted"} :
    <<g, v>> \in reviewed => gens[g].status # "absent"

\* Only events of actors who may give orders are causes.
StartsAreAuthorized == \A t \in Turns : turns[t].cause.authorized

CausesRecorded ==
  \A t \in Turns : turns[t].cause # NoEvent => turns[t].cause.event \in inbox

IInv == /\ TypeOK
        /\ TurnsInPlace /\ GensInOrder /\ ActiveIsNewest
        /\ PublishedTurnsExist /\ ReviewedExist /\ CausesRecorded
        /\ QueuedHasTurn /\ StatusIsKept
        /\ OneActiveTurn /\ StartsAreAuthorized
        /\ SessionFollowsAGeneration

-----------------------------------------------------------------------------
(* The shapes of steps *)

\* Something keeps what the status of a generation promises.
Backed(g) ==
  /\ gens[g].status = "queued" =>
       \E t \in Turns : turns[t].gen = g /\ turns[t].status = "queued"
  /\ gens[g].status = "publishing" => Told("publish", g)
  /\ gens[g].status = "awaiting_merge" => g \in linked
  /\ gens[g].status = "waiting_human" => Explained(g)

\* Links, actions and events are added, not taken away.
Grows ==
  /\ linked \subseteq linked' /\ linked' \subseteq Generations
  /\ intents \subseteq intents' /\ intents' \subseteq Effects
  /\ \A t \in Turns : <<"publish", t>> \in intents' =>
       <<"publish", t>> \in intents \/ turns[t].status # "absent"
  /\ inbox \subseteq inbox' /\ inbox' \subseteq Events
  /\ forcing' \in BOOLEAN
  /\ reviewed' \subseteq (Generations \X {"left", "exhausted"})
  /\ \A g \in Generations, v \in {"left", "exhausted"} :
       <<g, v>> \in reviewed' => gens[g].status # "absent"

\* Nothing else happens.
Stays == UNCHANGED <<session, gens, turns>> /\ Grows

NewRow(g, cause) == [status |-> "queued", gen |-> g, cause |-> cause]

\* A turn begins, in the generation that is active already or in a new one.
Begins(g, gen, t, cause) ==
  /\ gen.status = "queued"
  /\ gens' = [gens EXCEPT ![g] = gen]
  /\ turns[t].status = "absent" /\ turns' = [turns EXCEPT ![t] = NewRow(g, cause)]
  /\ ActiveTurns(g) = {}
  /\ cause.authorized
  /\ cause # NoEvent => cause.event \in inbox' \ inbox
  /\ session' \in Session /\ session'.status = "queued"
  /\ \/ gens[g].status # "absent" /\ session'.active = session.active
     \/ NewGen(g) /\ session'.active = g
  /\ Grows

\* A generation, which exists, comes to another status, perhaps with a turn of it.
Moves(g, gen) ==
  /\ gens[g].status # "absent" /\ gen.status # "absent"
  /\ gens' = [gens EXCEPT ![g] = gen]
  /\ session' = [session EXCEPT !.status = gen.status]
  /\ \/ turns' = turns
     \/ \E t \in Turns, status \in TurnStatuses :
          /\ turns[t].status # "absent" /\ turns[t].gen = g
          /\ status \in Active => ActiveTurns(g) \subseteq {t}
          /\ turns' = [turns EXCEPT ![t].status = status]
  /\ Backed(g)'
  /\ Grows

-----------------------------------------------------------------------------
(* Lemmas *)

\* The invariants about statuses say that every generation is backed.
LEMMA AllBacked ==
  (QueuedHasTurn /\ StatusIsKept) <=> \A g \in Generations : Backed(g)
BY DEF QueuedHasTurn, StatusIsKept, PublishingHasIntent, AwaitingHasLink,
       WaitingIsExplained, Backed

LEMMA AllBackedNext ==
  (\A g \in Generations : Backed(g)') => (QueuedHasTurn /\ StatusIsKept)'
BY DEF QueuedHasTurn, StatusIsKept, PublishingHasIntent, AwaitingHasLink,
       WaitingIsExplained, Backed

LEMMA TurnsExist ==
  ASSUME IInv, NEW t \in Turns, turns[t].gen \in Generations
  PROVE  turns[t].status # "absent" /\ gens[turns[t].gen].status # "absent"
<1>1. NoTurn.gen = 0
  BY DEF NoTurn
<1>2. 0 \notin Generations
  BY SessionAssumption DEF Generations
<1>3. turns[t].status # "absent"
  BY <1>1, <1>2 DEF IInv, TurnsInPlace
<1> QED
  BY <1>3 DEF IInv, TurnsInPlace

\* What backs a generation that a step leaves alone, with its turns, still does.
LEMMA HeldOver ==
  ASSUME IInv, Grows, NEW g \in Generations, gens'[g] = gens[g],
         \A t \in Turns : turns[t].gen = g => turns'[t] = turns[t]
  PROVE  Backed(g)'
<1>1. Backed(g)
  BY AllBacked DEF IInv
<1>2. ASSUME NEW kind, Told(kind, g)
      PROVE  Told(kind, g)'
  BY <1>2 DEF Told, Grows
<1>3. ASSUME PausedTurn(g)
      PROVE  PausedTurn(g)'
  BY <1>3 DEF PausedTurn
<1>4. linked # {} => linked' # {}
  BY DEF Grows
<1>5. <<"remediation_exhausted", g>> \in intents =>
        <<"remediation_exhausted", g>> \in intents'
  BY DEF Grows
<1>6. Explained(g) => Explained(g)'
  BY <1>2, <1>3, <1>4, <1>5 DEF Explained
<1>7. g \in linked => g \in linked'
  BY DEF Grows
<1>8. (\E t \in Turns : turns[t].gen = g /\ turns[t].status = "queued") =>
        \E t \in Turns : turns'[t].gen = g /\ turns'[t].status = "queued"
  OBVIOUS
<1> QED
  BY <1>1, <1>2, <1>6, <1>7, <1>8 DEF Backed

LEMMA StaysKeeps ==
  ASSUME IInv, Stays
  PROVE  IInv'
<1>1. Grows /\ session' = session /\ gens' = gens /\ turns' = turns
  BY DEF Stays
<1>2. TypeOK'
  BY <1>1 DEF IInv, TypeOK, Grows
<1>3. (TurnsInPlace /\ GensInOrder /\ ActiveIsNewest)'
  BY <1>1 DEF IInv, TurnsInPlace, GensInOrder, ActiveIsNewest
<1>4. (PublishedTurnsExist /\ ReviewedExist /\ CausesRecorded)'
  BY <1>1 DEF IInv, PublishedTurnsExist, ReviewedExist, CausesRecorded, Grows
<1>5. (QueuedHasTurn /\ StatusIsKept)'
  <2>1. \A g \in Generations : Backed(g)'
    BY <1>1, HeldOver
  <2> QED
    BY <2>1, AllBackedNext
<1>6. (OneActiveTurn /\ StartsAreAuthorized)'
  BY <1>1 DEF IInv, OneActiveTurn, StartsAreAuthorized
<1>7. SessionFollowsAGeneration'
  BY <1>1 DEF IInv, SessionFollowsAGeneration
<1> QED
  BY <1>2, <1>3, <1>4, <1>5, <1>6, <1>7 DEF IInv

LEMMA BeginsKeeps ==
  ASSUME IInv, NEW g \in Generations, NEW gen \in Gen, NEW t \in Turns,
         NEW cause \in Cause \cup {NoEvent}, Begins(g, gen, t, cause)
  PROVE  IInv'
<1> DEFINE row == NewRow(g, cause)
<1>1. /\ row \in Turn /\ row.status = "queued" /\ row.gen = g /\ row.cause = cause
      /\ gen.status = "queued"
  BY DEF Begins, NewRow, Turn, TurnStatuses
<1> HIDE DEF row
<1>2. /\ gens' = [gens EXCEPT ![g] = gen] /\ turns' = [turns EXCEPT ![t] = row]
      /\ turns[t].status = "absent" /\ Grows
  BY DEF Begins, row
<1>3. gens \in [Generations -> Gen] /\ turns \in [Turns -> Turn]
  BY DEF IInv, TypeOK
<1>4. /\ \A h \in Generations : gens'[h] = IF h = g THEN gen ELSE gens[h]
      /\ \A u \in Turns : turns'[u] = IF u = t THEN row ELSE turns[u]
  BY <1>2, <1>3
<1>5. g # 0
  BY SessionAssumption DEF Generations
<1>6. turns[t] = NoTurn /\ turns[t].gen = 0
  BY <1>2 DEF IInv, TurnsInPlace, NoTurn
<1>7. TypeOK'
  BY <1>1, <1>2, <1>3 DEF Begins, TypeOK, Grows
<1>8. TurnsInPlace'
  BY <1>1, <1>4 DEF IInv, TurnsInPlace
<1>9. (GensInOrder /\ ActiveIsNewest)'
  <2>1. CASE gens[g].status # "absent" /\ session'.active = session.active
    BY <1>1, <1>4, <2>1 DEF IInv, GensInOrder, ActiveIsNewest, Begins
  <2>2. CASE NewGen(g) /\ session'.active = g
    <3>1. \A h \in Generations : h < g => gens[h].status # "absent"
      BY <2>2 DEF NewGen
    <3>2. \A h \in Generations : gens[h].status # "absent" => h < g
      <4> SUFFICES ASSUME NEW h \in Generations, gens[h].status # "absent", ~ h < g
                   PROVE  FALSE
        OBVIOUS
      <4>1. h \in Int /\ g \in Int
        BY DEF Generations
      <4>2. h = g \/ g < h
        BY <4>1
      <4> QED
        BY <4>2, <2>2 DEF NewGen, IInv, GensInOrder
    <3>3. \A h \in Generations : h \in Int
      BY DEF Generations
    <3>4. GensInOrder'
      <4> SUFFICES ASSUME NEW h \in Generations, NEW i \in Generations,
                          h < i, gens'[i].status # "absent"
                   PROVE  gens'[h].status # "absent"
        BY DEF GensInOrder
      <4>1. h < g \/ h = g
        BY <1>4, <3>2, <3>3
      <4> QED
        BY <4>1, <1>1, <1>4, <3>1
    <3>5. ActiveIsNewest'
      <4>1. \A h \in Generations : gens'[h].status # "absent" => h <= g
        BY <1>4, <3>2, <3>3
      <4> QED
        BY <4>1, <1>1, <1>4, <2>2 DEF ActiveIsNewest, Begins
    <3> QED
      BY <3>4, <3>5
  <2> QED
    BY <2>1, <2>2 DEF Begins
<1>10. (PublishedTurnsExist /\ ReviewedExist)'
  BY <1>1, <1>2, <1>4 DEF IInv, PublishedTurnsExist, ReviewedExist, Grows
<1>11. CausesRecorded'
  BY <1>1, <1>4 DEF IInv, CausesRecorded, Grows, Begins
<1>12. (QueuedHasTurn /\ StatusIsKept)'
  <2>1. ASSUME NEW h \in Generations, h # g
        PROVE  Backed(h)'
    <3>1. h # 0
      BY SessionAssumption DEF Generations
    <3> QED
      BY <1>2, <1>4, <1>6, <2>1, <3>1, HeldOver
  <2>2. Backed(g)'
    BY <1>1, <1>4 DEF Backed
  <2> QED
    BY <2>1, <2>2, AllBackedNext
<1>13. OneActiveTurn'
  <2>1. \A u \in Turns : turns[u].gen = g => turns[u].status \notin Active
    BY DEF Begins, ActiveTurns
  <2> QED
    BY <1>1, <1>4, <2>1 DEF IInv, OneActiveTurn
<1>14. StartsAreAuthorized'
  BY <1>1, <1>4 DEF IInv, StartsAreAuthorized, Begins
<1>15. SessionFollowsAGeneration'
  BY <1>1, <1>4 DEF SessionFollowsAGeneration, Begins
<1> QED
  BY <1>7, <1>8, <1>9, <1>10, <1>11, <1>12, <1>13, <1>14, <1>15 DEF IInv

LEMMA MovesKeeps ==
  ASSUME IInv, NEW g \in Generations, NEW gen \in Gen, Moves(g, gen)
  PROVE  IInv'
<1>1. /\ gens' = [gens EXCEPT ![g] = gen] /\ gens[g].status # "absent" /\ Grows
      /\ gen.status # "absent" /\ session' = [session EXCEPT !.status = gen.status]
  BY DEF Moves
<1>2. gens \in [Generations -> Gen] /\ turns \in [Turns -> Turn] /\ session \in Session
  BY DEF IInv, TypeOK
<1>3. \A h \in Generations : gens'[h] = IF h = g THEN gen ELSE gens[h]
  BY <1>1, <1>2
<1>4. /\ session'.status = gen.status /\ session'.active = session.active
      /\ session' \in Session /\ session.status # "absent"
  BY <1>1, <1>2 DEF Session, Gen, IInv, ActiveIsNewest
<1> DEFINE Persists(u) ==
             /\ turns'[u].gen = turns[u].gen /\ turns'[u].cause = turns[u].cause
             /\ turns[u].status = "absent" => turns'[u] = turns[u]
             /\ turns[u].status # "absent" => turns'[u].status # "absent"
             /\ turns[u].gen # g => turns'[u] = turns[u]
<1>5. turns' \in [Turns -> Turn] /\ \A u \in Turns : Persists(u)
  <2>1. CASE turns' = turns
    BY <2>1, <1>2
  <2>2. ASSUME NEW t \in Turns, NEW status \in TurnStatuses, turns[t].status # "absent",
               turns[t].gen = g, turns' = [turns EXCEPT ![t].status = status]
        PROVE  turns' \in [Turns -> Turn] /\ \A u \in Turns : Persists(u)
    <3> DEFINE row == [turns[t] EXCEPT !.status = status]
    <3>1. /\ row \in Turn /\ row.gen = turns[t].gen /\ row.cause = turns[t].cause
          /\ row.status = status /\ status # "absent"
      BY <1>2 DEF Turn, TurnStatuses
    <3>2. turns' = [turns EXCEPT ![t] = row]
      BY <2>2
    <3> HIDE DEF row
    <3>3. \A u \in Turns : turns'[u] = IF u = t THEN row ELSE turns[u]
      BY <1>2, <3>2
    <3> QED
      BY <1>2, <2>2, <3>1, <3>2, <3>3
  <2> QED
    BY <2>1, <2>2 DEF Moves
<1>6. TypeOK'
  BY <1>1, <1>2, <1>4, <1>5 DEF TypeOK, Grows
<1>7. (TurnsInPlace /\ GensInOrder /\ ActiveIsNewest)'
  <2>1. TurnsInPlace'
    BY <1>1, <1>3, <1>5 DEF IInv, TurnsInPlace
  <2>2. (GensInOrder /\ ActiveIsNewest)'
    BY <1>1, <1>3, <1>4 DEF IInv, GensInOrder, ActiveIsNewest
  <2> QED
    BY <2>1, <2>2
<1>8. (PublishedTurnsExist /\ ReviewedExist /\ CausesRecorded)'
  BY <1>1, <1>3, <1>5 DEF IInv, PublishedTurnsExist, ReviewedExist, CausesRecorded, Grows
<1>9. (QueuedHasTurn /\ StatusIsKept)'
  <2>1. ASSUME NEW h \in Generations, h # g
        PROVE  Backed(h)'
    BY <1>1, <1>3, <1>5, <2>1, HeldOver
  <2>2. Backed(g)'
    BY DEF Moves
  <2> QED
    BY <2>1, <2>2, AllBackedNext
<1>10. OneActiveTurn'
  <2>1. CASE turns' = turns
    BY <2>1 DEF IInv, OneActiveTurn
  <2>2. ASSUME NEW t \in Turns, NEW status \in TurnStatuses, turns[t].gen = g,
               status \in Active => ActiveTurns(g) \subseteq {t},
               turns' = [turns EXCEPT ![t].status = status]
        PROVE  OneActiveTurn'
    <3>1. \A u \in Turns : u # t => turns'[u] = turns[u]
      BY <1>2, <2>2
    <3>2. turns'[t].status = status
      BY <1>2, <2>2 DEF Turn
    <3>3. status \in Active => \A u \in Turns : u # t /\ turns[u].gen = g =>
                                  turns[u].status \notin Active
      BY <2>2 DEF ActiveTurns
    <3> QED
      BY <1>5, <2>2, <3>1, <3>2, <3>3 DEF IInv, OneActiveTurn
  <2> QED
    BY <2>1, <2>2 DEF Moves
<1>11. StartsAreAuthorized'
  BY <1>5 DEF IInv, StartsAreAuthorized
<1>12. SessionFollowsAGeneration'
  BY <1>3, <1>4 DEF SessionFollowsAGeneration
<1> QED
  BY <1>6, <1>7, <1>8, <1>9, <1>10, <1>11, <1>12 DEF IInv

-----------------------------------------------------------------------------
(* The shape of each action *)

\* A turn begins in what is then the active generation.
Enters ==
  \E g \in Generations, gen \in Gen, t \in Turns, cause \in Cause \cup {NoEvent} :
    Begins(g, gen, t, cause) /\ session'.active = g

LEMMA NewGenIsEmpty ==
  ASSUME IInv, NEW g \in Generations, NewGen(g)
  PROVE  ActiveTurns(g) = {}
<1> SUFFICES ASSUME NEW t \in Turns, turns[t].gen = g
             PROVE  FALSE
  BY DEF ActiveTurns
<1> QED
  BY TurnsExist DEF NewGen

LEMMA GenTypes ==
  ASSUME NEW gen \in Gen
  PROVE  /\ [gen EXCEPT !.status = "queued"] \in Gen
         /\ [gen EXCEPT !.status = "queued"].status = "queued"
         /\ [gen EXCEPT !.wait = "none"] \in Gen
         /\ [gen EXCEPT !.wait = "none", !.cancel = FALSE] \in Gen
BY DEF Gen, GenStatuses, WaitReasons

LEMMA NoGenType == NoGen \in Gen
BY DEF NoGen, Gen, WaitReasons

LEMMA NoEventAuthorized == NoEvent.authorized
BY DEF NoEvent

LEMMA Responses ==
  ASSUME NEW k \in Kinds, NEW authorized \in BOOLEAN
  PROVE  /\ Response(k, authorized) = "start" => authorized
         /\ Response(k, authorized) = "turn" =>
              /\ authorized /\ session.status # "absent"
              /\ ActiveTurns(session.active) = {}
         /\ Response(k, authorized) \in {"cancel", "merge", "close"} =>
              session.status # "absent"
         /\ Response(k, authorized) = "close" => linked # {}
BY DEF Response, ShouldQueueTurn

\* What every action that adds at most some notes does to the other variables.
LEMMA GrowsBy ==
  ASSUME IInv, linked' = linked, reviewed' = reviewed, inbox \subseteq inbox',
         inbox' \subseteq Events, forcing' \in BOOLEAN,
         NEW notes, notes \subseteq Effects, intents' = intents \cup notes,
         \A t \in Turns : <<"publish", t>> \notin notes
  PROVE  Grows
BY DEF Grows, IInv, TypeOK, ReviewedExist

LEMMA GrowsQuietly ==
  ASSUME IInv, linked' = linked, reviewed' = reviewed, intents' = intents,
         inbox \subseteq inbox', inbox' \subseteq Events, forcing' \in BOOLEAN
  PROVE  Grows
BY DEF Grows, IInv, TypeOK, ReviewedExist

\* A cause is what Begins asks for if its event is new.
LEMMA EventCause ==
  ASSUME NEW e \in Events, NEW k \in Kinds, NEW authorized \in BOOLEAN, authorized,
         Fresh(e), Recorded(e), IInv
  PROVE  LET cause == [event |-> e, kind |-> k, authorized |-> authorized]
         IN  /\ cause \in Cause /\ cause.authorized
             /\ cause.event \in inbox' \ inbox
             /\ inbox \subseteq inbox' /\ inbox' \subseteq Events
BY DEF Cause, Fresh, Recorded, IInv, TypeOK

\* Queues and Starts make a turn begin in the active generation.
LEMMA QueuedStart ==
  ASSUME IInv, NEW g \in Generations, NEW gen \in Gen,
         NEW cause \in Cause \cup {NoEvent}, cause.authorized,
         cause # NoEvent => cause.event \in inbox' \ inbox,
         NewGen(g) \/ (g = session.active /\ gens[g].status # "absent"),
         ActiveTurns(g) = {}, Queues(g, gen), Starts(g, cause), Grows
  PROVE  Enters
<1> DEFINE queued == [gen EXCEPT !.status = "queued"]
<1>1. queued \in Gen /\ queued.status = "queued" /\ gens' = [gens EXCEPT ![g] = queued]
  BY GenTypes DEF Queues
<1> HIDE DEF queued
<1>2. PICK t \in Turns :
        NewTurn(t) /\ turns' = [turns EXCEPT ![t] = NewRow(g, cause)]
  BY DEF Starts, NewRow
<1>3. session' \in Session /\ session'.status = "queued" /\ session'.active = g
  BY DEF Queues, Session, GenStatuses
<1>4. Begins(g, queued, t, cause)
  BY <1>1, <1>2, <1>3 DEF Begins, NewTurn
<1> QED
  BY <1>1, <1>3, <1>4 DEF Enters

LEMMA StartSessionEnters ==
  ASSUME IInv, NEW e \in Events, NEW k \in Kinds, NEW authorized \in BOOLEAN,
         StartSession(e, k, authorized)
  PROVE  Enters
<1> DEFINE cause == [event |-> e, kind |-> k, authorized |-> authorized]
<1>1. authorized /\ Fresh(e) /\ Recorded(e) /\ UNCHANGED <<linked, forcing, reviewed>>
  BY Responses DEF StartSession
<1>2. /\ cause \in Cause /\ cause.authorized /\ cause.event \in inbox' \ inbox
      /\ inbox \subseteq inbox' /\ inbox' \subseteq Events
  BY <1>1, EventCause
<1>3. PICK g \in Generations :
        /\ NewGen(g) /\ Queues(g, NoGen) /\ Starts(g, cause)
        /\ intents' = intents \cup {<<"ack", g>>}
  BY DEF StartSession
<1> HIDE DEF cause
<1>4. {<<"ack", g>>} \subseteq Effects /\ \A t \in Turns : <<"publish", t>> \notin {<<"ack", g>>}
  BY DEF Effects, GenEffects
<1>5. Grows
  BY <1>1, <1>2, <1>3, <1>4, GrowsBy DEF IInv, TypeOK
<1> QED
  BY <1>2, <1>3, <1>5, NoGenType, NewGenIsEmpty, QueuedStart

LEMMA FollowUpEnters ==
  ASSUME IInv, NEW e \in Events, NEW k \in Kinds, NEW authorized \in BOOLEAN,
         FollowUp(e, k, authorized)
  PROVE  Enters
<1> DEFINE cause == [event |-> e, kind |-> k, authorized |-> authorized]
           again == [Cur EXCEPT !.wait = "none"]
<1>1. /\ authorized /\ Fresh(e) /\ Recorded(e)
      /\ UNCHANGED <<linked, intents, forcing, reviewed>>
      /\ session.status # "absent" /\ ActiveTurns(session.active) = {}
  BY Responses DEF FollowUp
<1>2. /\ cause \in Cause /\ cause.authorized /\ cause.event \in inbox' \ inbox
      /\ inbox \subseteq inbox' /\ inbox' \subseteq Events
  BY <1>1, EventCause
<1>3. PICK g \in Generations :
        /\ \/ NewGen(g) /\ Queues(g, NoGen)
           \/ g = session.active /\ Queues(g, again)
        /\ Starts(g, cause)
  BY DEF FollowUp
<1>4. g = session.active => again \in Gen /\ gens[g].status # "absent"
  BY <1>1, GenTypes DEF IInv, TypeOK, ActiveIsNewest, Cur
<1> HIDE DEF cause, again
<1>5. Grows
  BY <1>1, <1>2, GrowsQuietly DEF IInv, TypeOK
<1>6. CASE NewGen(g) /\ Queues(g, NoGen)
  BY <1>2, <1>3, <1>5, <1>6, NoGenType, NewGenIsEmpty, QueuedStart
<1>7. CASE g = session.active /\ Queues(g, again)
  BY <1>1, <1>2, <1>3, <1>4, <1>5, <1>7, QueuedStart
<1> QED
  BY <1>3, <1>6, <1>7

LEMMA ForceStartEnters ==
  ASSUME IInv, ForceStart
  PROVE  Enters
<1>1. PICK g \in Generations : NewGen(g) /\ Queues(g, NoGen) /\ Starts(g, NoEvent)
  BY DEF ForceStart
<1>2. Grows
  BY GrowsQuietly DEF ForceStart, IInv, TypeOK
<1> QED
  BY <1>1, <1>2, NoGenType, NoEventAuthorized, NewGenIsEmpty, QueuedStart

LEMMA RetryEnters ==
  ASSUME IInv, Retry
  PROVE  Enters
<1> DEFINE again == [Cur EXCEPT !.wait = "none", !.cancel = FALSE]
<1>1. /\ session.active \in Generations /\ gens[session.active].status # "absent"
      /\ again \in Gen
  BY GenTypes DEF Retry, Open, IInv, TypeOK, ActiveIsNewest, Cur
<1>2. /\ Queues(session.active, again) /\ Starts(session.active, NoEvent)
      /\ ActiveTurns(session.active) = {}
  BY DEF Retry
<1> HIDE DEF again
<1>3. Grows
  BY GrowsQuietly DEF Retry, IInv, TypeOK
<1> QED
  BY <1>1, <1>2, <1>3, NoEventAuthorized, QueuedStart

LEMMA RemediateBegins ==
  ASSUME IInv, NEW g \in Generations, Remediate(g)
  PROVE  \E gen \in Gen, t \in Turns : Begins(g, gen, t, NoEvent)
<1> DEFINE again == [gens[g] EXCEPT !.status = "queued", !.tries = @ + 1]
<1>1. again \in Gen /\ again.status = "queued"
  <2>1. gens[g] \in Gen
    BY DEF IInv, TypeOK
  <2>2. gens[g].tries + 1 \in Nat
    BY <2>1 DEF Gen
  <2> QED
    BY <2>1, <2>2 DEF Gen, GenStatuses
<1>2. Sets(g, again) /\ ActiveTurns(g) = {} /\ gens[g].status # "absent"
  BY DEF Remediate, IInv, ReviewedExist
<1> HIDE DEF again
<1>3. PICK t \in Turns :
        NewTurn(t) /\ turns' = [turns EXCEPT ![t] = NewRow(g, NoEvent)]
  BY DEF Remediate, Starts, NewRow
<1>4. session' \in Session /\ session'.status = "queued" /\ session'.active = session.active
  BY <1>1, <1>2 DEF Sets, IInv, TypeOK, Session, GenStatuses
<1>5. Grows
  BY GrowsQuietly DEF Remediate, IInv, TypeOK
<1> QED
  BY <1>1, <1>2, <1>3, <1>4, <1>5, NoEventAuthorized DEF Begins, NewTurn, Sets

\* Sets makes a generation move if nothing else happens to turns.
LEMMA SetsMoves ==
  ASSUME IInv, NEW g \in Generations, NEW gen \in Gen, gens[g].status # "absent",
         gen.status # "absent", Sets(g, gen), turns' = turns, Grows, Backed(g)'
  PROVE  Moves(g, gen)
BY DEF Sets, Moves

\* Some statuses promise nothing.
LEMMA NothingToBack ==
  ASSUME IInv, NEW g \in Generations, NEW gen \in Gen, gens' = [gens EXCEPT ![g] = gen],
         gen.status \in {"cancelled", "completed", "failed"}
  PROVE  Backed(g)'
<1>1. gens'[g] = gen
  BY DEF IInv, TypeOK
<1> QED
  BY <1>1 DEF Backed

LEMMA CancelsMoves ==
  ASSUME IInv, session.status # "absent", Cancels, turns' = turns, Grows
  PROVE  \E g \in Generations, gen \in Gen : Moves(g, gen)
<1>1. PICK g \in Generations : g = session.active /\ gens[g].status # "absent"
  BY DEF IInv, ActiveIsNewest
<1> DEFINE gen == [gens[g] EXCEPT !.status = "cancelled", !.cancel = TRUE]
<1>2. gen \in Gen /\ gen.status = "cancelled"
  BY DEF IInv, TypeOK, Gen, GenStatuses
<1>3. Sets(g, gen)
  BY <1>1 DEF Cancels, Cur
<1> HIDE DEF gen
<1>4. Backed(g)'
  BY <1>1, <1>2, <1>3, NothingToBack DEF Sets
<1> QED
  BY <1>1, <1>2, <1>3, <1>4, SetsMoves

LEMMA CompleteMergeMoves ==
  ASSUME IInv, NEW e \in Events, NEW k \in Kinds, NEW authorized \in BOOLEAN,
         CompleteMerge(e, k, authorized)
  PROVE  \E g \in Generations, gen \in Gen : Moves(g, gen)
<1>1. PICK g \in Generations : g = session.active /\ gens[g].status # "absent"
  BY Responses DEF IInv, ActiveIsNewest, CompleteMerge
<1> DEFINE gen == [gens[g] EXCEPT !.status = "completed", !.wait = "none", !.cancel = TRUE]
<1>2. gen \in Gen /\ gen.status = "completed"
  BY DEF IInv, TypeOK, Gen, GenStatuses, WaitReasons
<1>3. Sets(g, gen) /\ turns' = turns
  BY <1>1 DEF CompleteMerge, Cur
<1> HIDE DEF gen
<1>4. Backed(g)'
  BY <1>1, <1>2, <1>3, NothingToBack DEF Sets
<1>5. Grows
  BY GrowsQuietly DEF CompleteMerge, Recorded, IInv, TypeOK
<1> QED
  BY <1>1, <1>2, <1>3, <1>4, <1>5, SetsMoves

LEMMA CloseMoves ==
  ASSUME IInv, NEW e \in Events, NEW k \in Kinds, NEW authorized \in BOOLEAN,
         CloseMergeRequest(e, k, authorized)
  PROVE  \E g \in Generations, gen \in Gen : Moves(g, gen)
<1>1. PICK g \in Generations : g = session.active /\ gens[g].status # "absent"
  BY Responses DEF IInv, ActiveIsNewest, CloseMergeRequest
<1> DEFINE gen == [gens[g] EXCEPT !.status = "waiting_human", !.wait = "mr_closed"]
<1>2. gen \in Gen /\ gen.status = "waiting_human" /\ gen.wait = "mr_closed"
  BY DEF IInv, TypeOK, Gen, GenStatuses, WaitReasons
<1>3. /\ Sets(g, gen) /\ turns' = turns
      /\ linked' = linked /\ Response(k, authorized) = "close"
  BY <1>1 DEF CloseMergeRequest, Cur
<1> HIDE DEF gen
<1>4. gens'[g] = gen
  BY <1>1, <1>3 DEF Sets, IInv, TypeOK
<1>5. linked' # {}
  BY <1>3, Responses
<1>6. Backed(g)'
  BY <1>2, <1>4, <1>5 DEF Backed, Explained
<1>7. Grows
  BY GrowsQuietly DEF CloseMergeRequest, Recorded, IInv, TypeOK
<1> QED
  BY <1>1, <1>2, <1>3, <1>6, <1>7, SetsMoves

LEMMA RecordMoves ==
  ASSUME IInv, NEW t \in Turns, RecordPublication(t)
  PROVE  \E g \in Generations, gen \in Gen : Moves(g, gen)
<1>1. PICK g \in Generations : g = turns[t].gen /\ gens[g].status # "absent"
  BY DEF RecordPublication, IInv, PublishedTurnsExist, TurnsInPlace
<1> DEFINE gen == [gens[g] EXCEPT !.status = "awaiting_merge"]
<1>2. gen \in Gen /\ gen.status = "awaiting_merge"
  BY DEF IInv, TypeOK, Gen, GenStatuses
<1>3. /\ Sets(g, gen) /\ linked' = linked \cup {g}
      /\ UNCHANGED <<turns, inbox, forcing, reviewed>>
  BY <1>1 DEF RecordPublication
<1>4. PICK merge \in SUBSET {<<"merge", t>>} :
        intents' = intents \cup {<<"mr", g>>} \cup merge
  BY <1>1 DEF RecordPublication
<1> HIDE DEF gen
<1>5. gens'[g] = gen
  BY <1>1, <1>3 DEF Sets, IInv, TypeOK
<1>6. Backed(g)'
  BY <1>2, <1>3, <1>5 DEF Backed
<1>7. <<"merge", t>> \in Effects /\ <<"mr", g>> \in Effects
  BY <1>1 DEF Effects, TurnEffects, GenEffects
<1>8. Grows
  BY <1>1, <1>3, <1>4, <1>7 DEF Grows, IInv, TypeOK, ReviewedExist
<1> QED
  BY <1>1, <1>2, <1>3, <1>6, <1>8, SetsMoves

LEMMA GiveUpMoves ==
  ASSUME IInv, NEW g \in Generations, GiveUp(g)
  PROVE  \E gen \in Gen : Moves(g, gen)
<1> DEFINE gen == [gens[g] EXCEPT !.status = "waiting_human",
                                  !.wait = "remediation_exhausted"]
<1>1. gens[g].status # "absent"
  BY DEF GiveUp, IInv, ReviewedExist
<1>2. /\ gen \in Gen /\ gen.status = "waiting_human"
      /\ gen.wait = "remediation_exhausted"
  BY DEF IInv, TypeOK, Gen, GenStatuses, WaitReasons
<1>3. /\ Sets(g, gen) /\ UNCHANGED <<turns, linked, inbox, forcing, reviewed>>
      /\ intents' = intents \cup {<<"remediation_exhausted", g>>}
  BY DEF GiveUp
<1> HIDE DEF gen
<1>4. gens'[g] = gen
  BY <1>3 DEF Sets, IInv, TypeOK
<1>5. Backed(g)'
  BY <1>2, <1>3, <1>4 DEF Backed, Explained
<1>6. Grows
  BY <1>3 DEF Grows, IInv, TypeOK, ReviewedExist, Effects, GenEffects
<1> QED
  BY <1>1, <1>2, <1>3, <1>5, <1>6, SetsMoves

\* What an outcome leaves behind backs the status it leads to.
LEMMA OutcomeBacked ==
  ASSUME IInv, NEW t \in Turns, NEW outcome \in Outcomes, NEW g \in Generations,
         turns[t].gen = g, turns' = [turns EXCEPT ![t].status = TurnAfter[outcome]],
         intents' = intents \cup {<<Intent[outcome], t>>},
         gens'[g].status = GenAfter[outcome],
         gens'[g].wait = WaitAfter(outcome, gens[g].wait)
  PROVE  Backed(g)'
<1>1. turns'[t].gen = g /\ turns'[t].status = TurnAfter[outcome]
  BY DEF IInv, TypeOK, Turn
<1>2. CASE outcome = "needs_human"
  <2>1. Told("question", g)'
    BY <1>1, <1>2 DEF Told, Intent
  <2>2. gens'[g].status = "waiting_human" /\ gens'[g].wait = "clarification"
    BY <1>2 DEF GenAfter, WaitAfter
  <2> QED
    BY <2>1, <2>2 DEF Backed, Explained
<1>3. CASE outcome = "no_safe_change"
  <2>1. Told("no_safe_change", g)'
    BY <1>1, <1>3 DEF Told, Intent
  <2>2. gens'[g].status = "waiting_human" /\ gens'[g].wait = "no_safe_change"
    BY <1>3 DEF GenAfter, WaitAfter
  <2> QED
    BY <2>1, <2>2 DEF Backed, Explained
<1>4. CASE outcome = "budget_exhausted"
  <2>1. Told("budget_exhausted", g)' /\ PausedTurn(g)'
    BY <1>1, <1>4 DEF Told, PausedTurn, Intent, TurnAfter
  <2>2. gens'[g].status = "waiting_human" /\ gens'[g].wait = "budget_exhausted"
    BY <1>4 DEF GenAfter, WaitAfter
  <2> QED
    BY <2>1, <2>2 DEF Backed, Explained
<1>5. CASE outcome = "failed"
  BY <1>5 DEF Backed, GenAfter
<1>6. CASE outcome = "changes_ready"
  <2>1. Told("publish", g)'
    BY <1>1, <1>6 DEF Told, Intent
  <2> QED
    BY <1>6, <2>1 DEF Backed, GenAfter
<1> QED
  BY <1>2, <1>3, <1>4, <1>5, <1>6 DEF Outcomes

LEMMA OutcomeTypes ==
  ASSUME NEW outcome \in Outcomes, NEW wait \in WaitReasons
  PROVE  /\ TurnAfter[outcome] \in TurnStatuses
         /\ GenAfter[outcome] \in GenStatuses
         /\ Intent[outcome] \in TurnEffects
         /\ WaitAfter(outcome, wait) \in WaitReasons
BY DEF Outcomes, TurnAfter, GenAfter, Intent, WaitAfter, TurnStatuses, GenStatuses,
       TurnEffects, WaitReasons

LEMMA ApplyMoves ==
  ASSUME IInv, NEW t \in Turns, NEW outcome \in Outcomes, Apply(t, outcome)
  PROVE  \E g \in Generations, gen \in Gen : Moves(g, gen)
<1>1. turns[t].status # "absent"
  BY DEF Apply
<1>2. PICK g \in Generations : g = turns[t].gen /\ gens[g].status # "absent"
  BY <1>1 DEF IInv, TurnsInPlace
<1> DEFINE gen == [gens[g] EXCEPT !.status = GenAfter[outcome],
                                  !.wait = WaitAfter(outcome, @)]
<1>3. /\ turns' = [turns EXCEPT ![t].status = TurnAfter[outcome]]
      /\ TurnAfter[outcome] \in Active => ActiveTurns(g) \subseteq {t}
      /\ Sets(g, gen)
      /\ intents' = intents \cup {<<Intent[outcome], t>>}
      /\ UNCHANGED <<linked, inbox, forcing, reviewed>>
  BY <1>2 DEF Apply
<1>4. /\ gen \in Gen /\ gen.status = GenAfter[outcome] /\ gen.status # "absent"
      /\ gen.wait = WaitAfter(outcome, gens[g].wait)
  <2>1. gens[g] \in Gen /\ gens[g].wait \in WaitReasons
    BY DEF IInv, TypeOK, Gen
  <2>2. GenAfter[outcome] \in GenStatuses /\ WaitAfter(outcome, gens[g].wait) \in WaitReasons
    BY <2>1, OutcomeTypes
  <2> QED
    BY <2>1, <2>2 DEF Gen, GenStatuses
<1> HIDE DEF gen
<1>5. gens'[g] = gen
  BY <1>3 DEF Sets, IInv, TypeOK
<1>6. Backed(g)'
  BY <1>2, <1>3, <1>4, <1>5, OutcomeBacked
<1>7. Grows
  <2>1. <<Intent[outcome], t>> \in Effects
    BY OutcomeTypes DEF Effects, WaitReasons
  <2> QED
    BY <1>1, <1>3, <2>1 DEF Grows, IInv, TypeOK, ReviewedExist
<1>8. TurnAfter[outcome] \in TurnStatuses
  BY OutcomeTypes DEF WaitReasons
<1>9. Moves(g, gen)
  BY <1>1, <1>2, <1>3, <1>4, <1>6, <1>7, <1>8 DEF Moves, Sets
<1> QED
  BY <1>4, <1>9

LEMMA QuietStays ==
  ASSUME IInv,
         \/ \E e \in Events, k \in Kinds, authorized \in BOOLEAN :
              CommentStatus(e, k, authorized) \/ Ignore(e, k, authorized)
         \/ DropForced \/ (\E g \in Generations : Review(g)) \/ UNCHANGED vars
  PROVE  Stays
<1>1. ASSUME NEW e \in Events, NEW k \in Kinds, NEW authorized \in BOOLEAN,
             CommentStatus(e, k, authorized)
      PROVE  Stays
  <2>1. {<<"status", e>>} \subseteq Effects
    BY DEF Effects
  <2>2. /\ intents' = intents \cup {<<"status", e>>} /\ inbox' = inbox \cup {e}
        /\ UNCHANGED <<session, gens, turns, linked, forcing, reviewed>>
    BY <1>1 DEF CommentStatus, Recorded
  <2>3. Grows
    BY <2>1, <2>2 DEF Grows, IInv, TypeOK, ReviewedExist
  <2> QED
    BY <2>2, <2>3 DEF Stays
<1>2. ASSUME NEW e \in Events, NEW k \in Kinds, NEW authorized \in BOOLEAN,
             Ignore(e, k, authorized)
      PROVE  Stays
  <2>1. Grows
    BY <1>2, GrowsQuietly DEF Ignore, Recorded, IInv, TypeOK
  <2> QED
    BY <1>2, <2>1 DEF Ignore, Stays
<1>3. CASE DropForced
  BY <1>3, GrowsQuietly DEF DropForced, Stays, IInv, TypeOK
<1>4. ASSUME NEW g \in Generations, Review(g)
      PROVE  Stays
  <2>1. PICK verdict \in {"left", "exhausted"} :
          /\ gens[g].status = "awaiting_merge" /\ reviewed' = reviewed \cup {<<g, verdict>>}
          /\ UNCHANGED <<session, gens, turns, linked, intents, inbox, forcing>>
    BY <1>4 DEF Review
  <2>2. Grows
    BY <2>1 DEF Grows, IInv, TypeOK, ReviewedExist
  <2> QED
    BY <2>1, <2>2 DEF Stays
<1>5. CASE UNCHANGED vars
  BY <1>5, GrowsQuietly DEF vars, Stays, IInv, TypeOK
<1> QED
  BY <1>1, <1>2, <1>3, <1>4, <1>5

-----------------------------------------------------------------------------
(* Theorems *)

\* Every step has one of the shapes.
LEMMA Shapes ==
  ASSUME IInv, [Next]_vars
  PROVE  \/ Stays \/ Enters
         \/ \E g \in Generations, gen \in Gen : Moves(g, gen)
         \/ \E g \in Generations, gen \in Gen, t \in Turns :
              Remediate(g) /\ Begins(g, gen, t, NoEvent)
<1>1. ASSUME NEW e \in Events, NEW k \in Kinds, NEW authorized \in BOOLEAN,
             Ingest(e, k, authorized)
      PROVE  \/ Stays \/ Enters \/ \E g \in Generations, gen \in Gen : Moves(g, gen)
  <2>1. CASE StartSession(e, k, authorized)
    BY <2>1, StartSessionEnters
  <2>2. CASE FollowUp(e, k, authorized)
    BY <2>2, FollowUpEnters
  <2>3. CASE CommentStatus(e, k, authorized) \/ Ignore(e, k, authorized)
    BY <2>3, QuietStays
  <2>4. CASE Cancel(e, k, authorized)
    <3>1. session.status # "absent"
      BY <2>4, Responses DEF Cancel
    <3>2. Grows
      BY <2>4, GrowsQuietly DEF Cancel, Recorded, IInv, TypeOK
    <3> QED
      BY <2>4, <3>1, <3>2, CancelsMoves DEF Cancel
  <2>5. CASE CompleteMerge(e, k, authorized)
    BY <2>5, CompleteMergeMoves
  <2>6. CASE CloseMergeRequest(e, k, authorized)
    BY <2>6, CloseMoves
  <2> QED
    BY <1>1, <2>1, <2>2, <2>3, <2>4, <2>5, <2>6 DEF Ingest
<1>2. CASE ForceStart
  BY <1>2, ForceStartEnters
<1>3. CASE DropForced \/ UNCHANGED vars
  BY <1>3, QuietStays
<1>4. CASE CancelByApi
  <2>1. Grows
    BY <1>4, GrowsQuietly DEF CancelByApi, IInv, TypeOK
  <2> QED
    BY <1>4, <2>1, CancelsMoves DEF CancelByApi, Open
<1>5. CASE Retry
  BY <1>5, RetryEnters
<1>6. ASSUME NEW g \in Generations, Review(g)
      PROVE  Stays
  BY <1>6, QuietStays
<1>7. ASSUME NEW g \in Generations, GiveUp(g)
      PROVE  \E gen \in Gen : Moves(g, gen)
  BY <1>7, GiveUpMoves
<1>8. ASSUME NEW g \in Generations, Remediate(g)
      PROVE  \E gen \in Gen, t \in Turns : Begins(g, gen, t, NoEvent)
  BY <1>8, RemediateBegins
<1>9. ASSUME NEW t \in Turns, NEW outcome \in Outcomes, Apply(t, outcome)
      PROVE  \E g \in Generations, gen \in Gen : Moves(g, gen)
  BY <1>9, ApplyMoves
<1>10. ASSUME NEW t \in Turns, RecordPublication(t)
       PROVE  \E g \in Generations, gen \in Gen : Moves(g, gen)
  BY <1>10, RecordMoves
<1>11. CASE Handle
  BY <1>11, <1>1, <1>2, <1>3, <1>4, <1>5 DEF Handle
<1>12. CASE Reconcile
  BY <1>12, <1>6, <1>7, <1>8 DEF Reconcile
<1>13. CASE Work
  BY <1>13, <1>9, <1>10 DEF Work
<1> QED
  BY <1>3, <1>11, <1>12, <1>13 DEF Next

\* IInv holds at first ...
LEMMA InitHolds == Init => IInv
<1> SUFFICES ASSUME Init PROVE IInv
  OBVIOUS
<1>1. /\ session = [status |-> "absent", active |-> 0]
      /\ \A g \in Generations : gens[g] = NoGen
      /\ \A t \in Turns : turns[t] = NoTurn
      /\ linked = {} /\ intents = {} /\ inbox = {} /\ reviewed = {} /\ forcing = FALSE
  BY DEF Init
<1>2. NoGen.status = "absent" /\ NoTurn.status = "absent" /\ NoTurn.cause = NoEvent
  BY DEF NoGen, NoTurn
<1>3. TypeOK
  <2>1. NoTurn \in Turn
    BY DEF NoTurn, Turn
  <2>2. session \in Session
    BY <1>1 DEF Session
  <2>3. gens \in [Generations -> Gen] /\ turns \in [Turns -> Turn]
    BY <2>1, NoGenType DEF Init
  <2> QED
    BY <1>1, <2>2, <2>3 DEF TypeOK
<1>4. TurnsInPlace /\ GensInOrder /\ ActiveIsNewest
  BY <1>1, <1>2 DEF TurnsInPlace, GensInOrder, ActiveIsNewest
<1>5. PublishedTurnsExist /\ ReviewedExist /\ CausesRecorded
  BY <1>1, <1>2 DEF PublishedTurnsExist, ReviewedExist, CausesRecorded
<1>6. QueuedHasTurn /\ StatusIsKept
  BY <1>1, <1>2, AllBacked DEF Backed
<1>7. OneActiveTurn /\ StartsAreAuthorized /\ SessionFollowsAGeneration
  BY <1>1, <1>2, NoEventAuthorized
     DEF OneActiveTurn, StartsAreAuthorized, SessionFollowsAGeneration, Active
<1> QED
  BY <1>3, <1>4, <1>5, <1>6, <1>7 DEF IInv

\* ... and is kept by every step.
LEMMA StepKeeps == IInv /\ [Next]_vars => IInv'
<1> SUFFICES ASSUME IInv, [Next]_vars PROVE IInv'
  OBVIOUS
<1>1. Enters => IInv'
  BY BeginsKeeps DEF Enters
<1> QED
  BY <1>1, Shapes, StaysKeeps, MovesKeeps, BeginsKeeps

\* IInv is an inductive invariant of the session.
THEOREM Invariance == Spec => []IInv
BY InitHolds, StepKeeps, PTL DEF Spec

\* The rows of issue_sessions, issue_generations and issue_turns keep their types.
THEOREM TypeCorrect == Spec => []TypeOK
BY Invariance, PTL DEF IInv

\* Whatever is retried, reconciled, restarted or applied late, a generation that is
\* queued has a queued turn, whose job a worker will find (create_turn_job).
THEOREM QueuedIsServed == Spec => []QueuedHasTurn
BY Invariance, PTL DEF IInv

\* The other statuses keep their promises: a publication is among the actions of the
\* outbox, a merge request is linked, a human was told what is waited for.
THEOREM StatusesKept == Spec => []StatusIsKept
BY Invariance, PTL DEF IInv

\* A generation has at most one turn that is queued or paused, so that the index
\* issue_turns_one_active never refuses the insertion of a turn.
THEOREM Alone == Spec => []OneActiveTurn
BY Invariance, PTL DEF IInv

\* The session's status is that of one of its generations.
THEOREM SessionFollows == Spec => []SessionFollowsAGeneration
BY Invariance, PTL DEF IInv

\* Only remediation starts turns in a generation that was superseded.
THEOREM NewestGeneration == Spec => TurnsStartInNewestGeneration
<1>1. IInv /\ IInv' /\ [Next]_vars =>
        [\A t \in Turns :
           turns[t].status = "absent" /\ turns'[t].status # "absent"
             => \/ \E g \in Generations : Remediate(g)
                \/ \A g \in Generations : gens'[g].status # "absent" => g <= turns'[t].gen]_vars
  <2> SUFFICES ASSUME IInv, IInv', [Next]_vars, NEW t \in Turns,
                      turns[t].status = "absent", turns'[t].status # "absent",
                      ~ \E g \in Generations : Remediate(g)
               PROVE  \A g \in Generations : gens'[g].status # "absent" => g <= turns'[t].gen
    OBVIOUS
  <2>1. CASE Stays
    BY <2>1 DEF Stays
  <2>2. CASE \E g \in Generations, gen \in Gen : Moves(g, gen)
    BY <2>2 DEF Moves, IInv, TypeOK
  <2>3. ASSUME NEW g \in Generations, NEW gen \in Gen, NEW u \in Turns,
               NEW cause \in Cause \cup {NoEvent},
               Begins(g, gen, u, cause), session'.active = g
        PROVE  turns'[t].gen = session'.active
    BY <2>3 DEF Begins, NewRow, IInv, TypeOK
  <2>4. CASE Enters
    BY <2>3, <2>4 DEF Enters, IInv, ActiveIsNewest
  <2> QED
    BY <2>1, <2>2, <2>4, Shapes
<1> QED
  BY <1>1, Invariance, PTL DEF Spec, TurnsStartInNewestGeneration
=============================================================================
