-------------------------- MODULE PublicationProofs --------------------------
(***************************************************************************)
(* Proofs about Publication, for any symbols, limits, analysts and number  *)
(* of cycles, and whatever the evaluator accepts.                          *)
(***************************************************************************)
EXTENDS Publication, Sequences, FiniteSetTheorems, TLAPS

USE PublicationAssumption

LEMMA DecidedRows ==
  ASSUME TypeOK, NEW a \in Analysts, work[a].phase = "deciding"
  PROVE  \A row \in NewRows(work[a]) :
           /\ row \in Signal
           /\ row.symbol = work[a].input[1] /\ row.cutoff = work[a].input[2]
           /\ row.created = work[a].time
           /\ ~Cooling(row.symbol, work[a].seen, work[a].time)
           /\ \A other \in NewRows(work[a]) : other = row
<1> DEFINE w == work[a]
<1>1. /\ w.input \in Inputs /\ w.time \in Ticks /\ w.accepted \subseteq Directions
      /\ w.seen \subseteq Signal
  BY DEF TypeOK, Work
<1>2. w.input[1] \in Symbols /\ w.input[2] \in Ticks
  BY <1>1 DEF Inputs
<1> DEFINE Row(d) == [symbol |-> w.input[1], cutoff |-> w.input[2], direction |-> d,
                      status |-> "tracked", created |-> w.time]
           long == Decided(w, "long", w.seen)
           short == Decided(w, "short", w.seen \cup long)
<1> HIDE DEF w
<1>3. \A d \in Directions : Row(d) \in Signal
  BY <1>1, <1>2 DEF Signal
<1>4. long \subseteq {Row("long")} /\ short \subseteq {Row("short")}
  BY DEF Decided
<1>5. long # {} => ~Cooling(w.input[1], w.seen, w.time)
  BY DEF Decided, Publishable
<1>6. short # {} => ~Cooling(w.input[1], w.seen \cup long, w.time)
                    /\ OfSymbol(Tracked(w.seen \cup long), w.input[1]) = {}
  BY DEF Decided, Publishable
<1>7. ~Cooling(w.input[1], w.seen \cup long, w.time) => ~Cooling(w.input[1], w.seen, w.time)
  BY DEF Cooling, Since, OfSymbol
<1>8. long # {} => short = {}
  <2>1. SUFFICES ASSUME long # {}, short # {} PROVE FALSE
    OBVIOUS
  <2>2. Row("long") \in long
    BY <1>4, <2>1
  <2>3. Row("long") \in OfSymbol(Tracked(w.seen \cup long), w.input[1])
    BY <2>2 DEF OfSymbol, Tracked
  <2>4. QED BY <1>6, <2>1, <2>3
<1>9. NewRows(w) = long \cup short
  BY DEF NewRows
<1>10. ASSUME NEW row \in NewRows(w)
       PROVE  /\ row \in {Row("long"), Row("short")}
              /\ ~Cooling(w.input[1], w.seen, w.time)
              /\ \A other \in NewRows(w) : other = row
  BY <1>4, <1>5, <1>6, <1>7, <1>8, <1>9, <1>10
<1>11. \A d \in Directions : /\ Row(d).symbol = w.input[1] /\ Row(d).cutoff = w.input[2]
                             /\ Row(d).created = w.time
  OBVIOUS
<1> HIDE DEF Row, long, short
<1>12. \A row \in NewRows(w) :
           /\ row \in Signal
           /\ row.symbol = w.input[1] /\ row.cutoff = w.input[2]
           /\ row.created = w.time
           /\ ~Cooling(row.symbol, w.seen, w.time)
           /\ \A other \in NewRows(w) : other = row
  BY <1>3, <1>10, <1>11 DEF Directions
<1>13. QED BY <1>12 DEF w

LEMMA AfterTyped ==
  ASSUME NEW w \in Work, NEW i
  PROVE  /\ After(w, i) \in Work
         /\ After(w, i).phase = "cycle" /\ After(w, i).input = NoInput
<1>1. Idle \in Work /\ Idle.phase = "cycle" /\ Idle.input = NoInput
  BY DEF Idle, Work, Ticks, NoInput
<1>2. w.todo \ {i} \subseteq Inputs /\ w.abnormal \in BOOLEAN
  BY DEF Work
<1>3. QED BY <1>1, <1>2 DEF After, Work, Idle

LEMMA WorkUpdated ==
  ASSUME NEW w \in Work
  PROVE  /\ \A todo \in SUBSET Inputs, abnormal \in BOOLEAN :
              [w EXCEPT !.todo = todo, !.abnormal = abnormal] \in Work
         /\ \A input \in Inputs, accepted \in SUBSET Directions, time \in Ticks :
              [w EXCEPT !.phase = "waiting", !.input = input, !.accepted = accepted,
                        !.time = time] \in Work
         /\ \A seen \in SUBSET Signal : [w EXCEPT !.phase = "deciding", !.seen = seen] \in Work
<1>1. /\ w = [phase |-> w.phase, todo |-> w.todo, abnormal |-> w.abnormal, input |-> w.input,
              accepted |-> w.accepted, time |-> w.time, seen |-> w.seen]
      /\ w.phase \in {"cycle", "waiting", "deciding"} /\ w.todo \in SUBSET Inputs
      /\ w.abnormal \in BOOLEAN /\ w.input \in Inputs \cup {NoInput}
      /\ w.accepted \in SUBSET Directions /\ w.time \in Ticks /\ w.seen \in SUBSET Signal
  BY DEF Work
<1>2. \A todo \in SUBSET Inputs, abnormal \in BOOLEAN :
        [w EXCEPT !.todo = todo, !.abnormal = abnormal] \in Work
  BY <1>1 DEF Work
<1>3. \A input \in Inputs, accepted \in SUBSET Directions, time \in Ticks :
        [w EXCEPT !.phase = "waiting", !.input = input, !.accepted = accepted,
                  !.time = time] \in Work
  BY <1>1 DEF Work
<1>4. \A seen \in SUBSET Signal : [w EXCEPT !.phase = "deciding", !.seen = seen] \in Work
  BY <1>1 DEF Work
<1>5. QED BY <1>2, <1>3, <1>4

LEMMA InputsArePairs ==
  ASSUME NEW i \in Inputs
  PROVE  i # NoInput
<1>1. PICK s \in Symbols, t \in Ticks : i = <<s, t>>
  BY DEF Inputs
<1>2. <<s, t>> \in Seq({s, t}) /\ Len(<<s, t>>) = 2
  OBVIOUS
<1>3. Len(<<>>) = 0
  OBVIOUS
<1>4. QED BY <1>1, <1>2, <1>3 DEF NoInput

LEMMA TypedStep ==
  ASSUME TypeOK, [Next]_vars
  PROVE  TypeOK'
<1> USE DEF TypeOK
<1>1. CASE Tick
  BY <1>1 DEF Tick, Ticks
<1>2. ASSUME NEW s \in Symbols, StoreCandles(s) PROVE TypeOK'
  BY <1>2 DEF StoreCandles, Ticks
<1>3. ASSUME NEW r \in signals, Close(r) PROVE TypeOK'
  <2>1. [r EXCEPT !.status = "closed"] \in Signal
    BY DEF Signal
  <2>2. QED BY <1>3, <2>1 DEF Close
<1>4. ASSUME NEW a \in Analysts, BeginCycle(a) PROVE TypeOK'
  <2> DEFINE todo == {<<s, stored[s]>> : s \in Symbols}
             v == [work[a] EXCEPT !.todo = todo, !.abnormal = stored[Btc] \in Wild]
  <2>1. todo \subseteq Inputs
    BY DEF Inputs
  <2>2. (stored[Btc] \in Wild) \in BOOLEAN
    OBVIOUS
  <2>3. v \in Work
    BY <2>1, <2>2, WorkUpdated
  <2>0. v.phase = work[a].phase /\ v.input = work[a].input
    BY DEF Work
  <2>4. work' = [work EXCEPT ![a] = v]
    BY <1>4 DEF BeginCycle
  <2> HIDE DEF v
  <2>5. cycles' \in 0..MaxCycles
    BY <1>4 DEF BeginCycle
  <2>6. QED BY <1>4, <2>0, <2>3, <2>4, <2>5 DEF BeginCycle
<1>5. ASSUME NEW a \in Analysts, NEW i, Leave(a, i), UNCHANGED <<now, stored, cycles>>,
             holder' = Released(a), snapshots' \subseteq Inputs, signals' \subseteq Signal
      PROVE TypeOK'
  <2> DEFINE v == After(work[a], i)
  <2>1. v \in Work /\ v.phase = "cycle" /\ v.input = NoInput
    BY AfterTyped
  <2>2. work' = [work EXCEPT ![a] = v]
    BY <1>5 DEF Leave
  <2> HIDE DEF v
  <2>3. holder' \in Analysts \cup {Nobody} /\ holder' # a
        /\ \A b \in Analysts \ {a} : holder' = b <=> holder = b
    BY <1>5 DEF Released
  <2>4. QED BY <1>5, <2>1, <2>2, <2>3
<1>6. ASSUME NEW a \in Analysts, NEW i \in work[a].todo,
             Skip(a, i) \/ Duplicate(a, i) \/ SaveWithout(a, i)
      PROVE TypeOK'
  <2>1. i \in Inputs
    BY DEF Work
  <2>2. holder # a
    BY <1>6 DEF Skip, Duplicate, SaveWithout
  <2>3. holder' = Released(a)
    BY <1>6, <2>2 DEF Skip, Duplicate, SaveWithout, Released
  <2>4. /\ Leave(a, i) /\ UNCHANGED <<now, stored, cycles>>
        /\ snapshots' \subseteq Inputs /\ signals' \subseteq Signal
    BY <1>6, <2>1 DEF Skip, Duplicate, SaveWithout, Signature
  <2>5. QED BY <1>5, <2>3, <2>4
<1>7. ASSUME NEW a \in Analysts, Publish(a) PROVE TypeOK'
  <2>1. holder' = Released(a)
    BY <1>7 DEF Publish, Released
  <2>2. work[a].input \in Inputs
    BY <1>7 DEF Publish, Work
  <2>3. NewRows(work[a]) \subseteq Signal
    BY <1>7, DecidedRows DEF Publish
  <2>4. /\ Leave(a, work[a].input) /\ UNCHANGED <<now, stored, cycles>>
        /\ snapshots' \subseteq Inputs /\ signals' \subseteq Signal
    BY <1>7, <2>2, <2>3 DEF Publish, Signature
  <2>5. QED BY <1>5, <2>1, <2>4
<1>8. ASSUME NEW a \in Analysts, Fail(a) PROVE TypeOK'
  BY <1>5, <1>8 DEF Fail
<1>9. ASSUME NEW a \in Analysts, Restart(a) PROVE TypeOK'
  <2>1. Idle \in Work /\ Idle.phase = "cycle" /\ Idle.input = NoInput
    BY DEF Idle, Work, Ticks, NoInput
  <2>2. holder' \in Analysts \cup {Nobody} /\ holder' # a
        /\ \A b \in Analysts \ {a} : holder' = b <=> holder = b
    BY <1>9 DEF Restart, Released
  <2>3. QED BY <1>9, <2>1, <2>2 DEF Restart
<1>10. ASSUME NEW a \in Analysts, NEW i \in work[a].todo, Save(a, i) PROVE TypeOK'
  <2>1. PICK accepted \in Outcomes :
          work' = [work EXCEPT ![a].phase = "waiting", ![a].input = i,
                               ![a].accepted = accepted, ![a].time = now]
    BY <1>10 DEF Save
  <2> DEFINE v == [work[a] EXCEPT !.phase = "waiting", !.input = i, !.accepted = accepted,
                                  !.time = now]
  <2>2. i \in Inputs /\ i # NoInput /\ accepted \subseteq Directions
    <3>1. i \in Inputs
      BY DEF Work
    <3>2. QED BY <3>1, InputsArePairs
  <2>3. v \in Work
    BY <2>2, WorkUpdated
  <2>0. v.phase = "waiting" /\ v.input = i
    BY DEF Work
  <2>4. work' = [work EXCEPT ![a] = v]
    BY <2>1
  <2> HIDE DEF v
  <2>5. work[a].phase = "cycle" /\ UNCHANGED <<now, stored, snapshots, signals, holder, cycles>>
    BY <1>10 DEF Save
  <2>6. QED BY <2>0, <2>2, <2>3, <2>4, <2>5
<1>11. ASSUME NEW a \in Analysts, Lock(a) PROVE TypeOK'
  <2> DEFINE v == [work[a] EXCEPT !.phase = "deciding", !.seen = Observed(work[a].time)]
  <2>1. Observed(work[a].time) \subseteq Signal
    BY DEF Observed, Tracked, Since
  <2>2. v \in Work
    BY <2>1, WorkUpdated
  <2>0. v.phase = "deciding" /\ v.input = work[a].input
    BY DEF Work
  <2>3. work' = [work EXCEPT ![a] = v]
    BY <1>11 DEF Lock
  <2> HIDE DEF v
  <2>4. /\ work[a].phase = "waiting" /\ holder = Nobody /\ holder' = a
        /\ UNCHANGED <<now, stored, snapshots, signals, cycles>>
    BY <1>11 DEF Lock, MayLock
  <2>5. \A b \in Analysts : b # a => work[b].phase # "deciding"
    BY <2>4
  <2>6. QED BY <2>0, <2>2, <2>3, <2>4, <2>5
<1>12. CASE UNCHANGED vars
  BY <1>12 DEF vars
<1>13. QED BY <1>1, <1>2, <1>3, <1>4, <1>6, <1>7, <1>8, <1>9, <1>10, <1>11, <1>12 DEF Next, Analyse

(* The loops and the rows keep their types, and whoever decides has the    *)
(* advisory lock.                                                          *)
THEOREM PublicationTyped == Spec => []TypeOK
<1>1. Init => TypeOK
  BY DEF Init, TypeOK, Idle, Work, Ticks, NoInput, Nobody
<1>2. TypeOK /\ [Next]_vars => TypeOK'
  BY TypedStep
<1>3. QED BY <1>1, <1>2, PTL DEF Spec

-----------------------------------------------------------------------------
(* What a step does as far as the properties below can tell: analysts keep *)
(* what they are at or leave it, next to one of five things.               *)
Same(a) ==
  /\ work'[a].phase = work[a].phase /\ work'[a].input = work[a].input
  /\ work'[a].time = work[a].time /\ work'[a].seen = work[a].seen
Left(a) == work'[a].phase = "cycle" /\ work'[a].input = NoInput
OthersSame(a) == \A b \in Analysts \ {a} : Same(b)

NothingHappens == UNCHANGED <<snapshots, signals>> /\ \A a \in Analysts : Same(a) \/ Left(a)

Closes(r) ==
  /\ signals' = (signals \ {r}) \cup {[r EXCEPT !.status = "closed"]}
  /\ UNCHANGED <<snapshots, work>>

SavesWithout(i) ==
  /\ \A b \in Analysts : work[b].input # i /\ (Same(b) \/ Left(b))
  /\ snapshots' = snapshots \cup {i} /\ UNCHANGED signals

Saves(a, i) ==
  /\ i \notin snapshots /\ i # NoInput
  /\ \A b \in Analysts \ {a} : work[b].input # i
  /\ work'[a].phase = "waiting" /\ work'[a].input = i
  /\ OthersSame(a) /\ UNCHANGED <<snapshots, signals>>

Locks(a) ==
  /\ work'[a].phase = "deciding" /\ work'[a].input = work[a].input
  /\ work'[a].time = work[a].time /\ work'[a].seen = Observed(work[a].time)
  /\ OthersSame(a) /\ UNCHANGED <<snapshots, signals>>

Publishes(a) ==
  /\ work[a].phase = "deciding"
  /\ signals' = signals \cup NewRows(work[a])
  /\ snapshots' = snapshots \cup {work[a].input}
  /\ Left(a) /\ OthersSame(a)

LEMMA Effects ==
  ASSUME TypeOK, [Next]_vars
  PROVE  \/ NothingHappens
         \/ \E r \in signals : Closes(r)
         \/ \E i \in Inputs : SavesWithout(i)
         \/ \E a \in Analysts, i \in Inputs : Saves(a, i)
         \/ \E a \in Analysts : Locks(a)
         \/ \E a \in Analysts : Publishes(a)
<1>0. work \in [Analysts -> Work]
  BY DEF TypeOK
<1>1. CASE Tick \/ (\E s \in Symbols : StoreCandles(s)) \/ UNCHANGED vars
  BY <1>1 DEF Tick, StoreCandles, vars, NothingHappens, Same
<1>2. ASSUME NEW r \in signals, Close(r) PROVE Closes(r)
  BY <1>2 DEF Close, Closes
<1>3. ASSUME NEW a \in Analysts, NEW i, Leave(a, i) PROVE Left(a) /\ OthersSame(a)
  <2> DEFINE v == After(work[a], i)
  <2>1. v.phase = "cycle" /\ v.input = NoInput
    BY <1>0, AfterTyped
  <2>2. work' = [work EXCEPT ![a] = v]
    BY <1>3 DEF Leave
  <2> HIDE DEF v
  <2>3. QED BY <1>0, <2>1, <2>2 DEF Left, OthersSame, Same
<1>4. ASSUME NEW a \in Analysts, BeginCycle(a) PROVE NothingHappens
  <2> DEFINE v == [work[a] EXCEPT !.todo = {<<s, stored[s]>> : s \in Symbols},
                                  !.abnormal = stored[Btc] \in Wild]
  <2>1. work[a] \in Work
    BY <1>0
  <2>2. /\ v.phase = work[a].phase /\ v.input = work[a].input
        /\ v.time = work[a].time /\ v.seen = work[a].seen
    BY <2>1 DEF Work
  <2>3. work' = [work EXCEPT ![a] = v]
    BY <1>4 DEF BeginCycle
  <2> HIDE DEF v
  <2>4. QED BY <1>0, <1>4, <2>2, <2>3 DEF BeginCycle, NothingHappens, Same
<1>5. ASSUME NEW a \in Analysts, NEW i \in work[a].todo, Skip(a, i) \/ Duplicate(a, i)
      PROVE NothingHappens
  BY <1>3, <1>5 DEF Skip, Duplicate, NothingHappens, OthersSame
<1>6. ASSUME NEW a \in Analysts, Fail(a) PROVE NothingHappens
  BY <1>3, <1>6 DEF Fail, NothingHappens, OthersSame
<1>7. ASSUME NEW a \in Analysts, Restart(a) PROVE NothingHappens
  BY <1>0, <1>7 DEF Restart, Idle, NothingHappens, Left, Same
<1>8. \A a \in Analysts : \A i \in work[a].todo : i \in Inputs /\ i # NoInput
  BY <1>0, InputsArePairs DEF Work
<1>9. ASSUME NEW a \in Analysts, NEW i \in work[a].todo, SaveWithout(a, i)
      PROVE SavesWithout(i)
  <2>1. work[a].input # i
    BY <1>8, <1>9 DEF SaveWithout, TypeOK
  <2>2. \A b \in Analysts : work[b].input # i
    BY <1>9, <2>1 DEF SaveWithout, Held
  <2>3. QED BY <1>3, <1>9, <2>2 DEF SaveWithout, Signature, SavesWithout, OthersSame
<1>10. ASSUME NEW a \in Analysts, NEW i \in work[a].todo, Save(a, i) PROVE Saves(a, i)
  <2>1. PICK accepted \in Outcomes :
          work' = [work EXCEPT ![a].phase = "waiting", ![a].input = i,
                               ![a].accepted = accepted, ![a].time = now]
    BY <1>10 DEF Save
  <2> DEFINE v == [work[a] EXCEPT !.phase = "waiting", !.input = i, !.accepted = accepted,
                                  !.time = now]
  <2>2. work[a] \in Work
    BY <1>0
  <2>3. v.phase = "waiting" /\ v.input = i
    BY <2>2 DEF Work
  <2>4. work' = [work EXCEPT ![a] = v]
    BY <2>1
  <2> HIDE DEF v
  <2>5. QED BY <1>0, <1>8, <1>10, <2>3, <2>4 DEF Save, Signature, Held, Saves, OthersSame, Same
<1>11. ASSUME NEW a \in Analysts, Lock(a) PROVE Locks(a)
  <2> DEFINE v == [work[a] EXCEPT !.phase = "deciding", !.seen = Observed(work[a].time)]
  <2>1. work[a] \in Work
    BY <1>0
  <2>2. /\ v.phase = "deciding" /\ v.input = work[a].input
        /\ v.time = work[a].time /\ v.seen = Observed(work[a].time)
    BY <2>1 DEF Work
  <2>3. work' = [work EXCEPT ![a] = v]
    BY <1>11 DEF Lock
  <2> HIDE DEF v
  <2>4. QED BY <1>0, <1>11, <2>2, <2>3 DEF Lock, Locks, OthersSame, Same
<1>12. ASSUME NEW a \in Analysts, Publish(a) PROVE Publishes(a)
  BY <1>3, <1>12 DEF Publish, Signature, Publishes
<1>13. QED
  BY <1>1, <1>2, <1>4, <1>5, <1>6, <1>7, <1>8, <1>9, <1>10, <1>11, <1>12 DEF Next, Analyse

-----------------------------------------------------------------------------
(* The snapshot of an analysis is there before its signals, nobody is at   *)
(* an analysis that is committed, and no two analysts are at the same.     *)
SavedFirst == \A r \in signals : <<r.symbol, r.cutoff>> \in snapshots

AtNewInputs ==
  \A a \in Analysts : work[a].input # NoInput =>
    /\ work[a].input \notin snapshots
    /\ \A b \in Analysts \ {a} : work[b].input # work[a].input

LEMMA ClosedRow ==
  ASSUME NEW r \in Signal
  PROVE  LET closed == [r EXCEPT !.status = "closed"]
         IN  closed.symbol = r.symbol /\ closed.cutoff = r.cutoff /\ closed.created = r.created
  BY DEF Signal

LEMMA OnceStep ==
  ASSUME TypeOK, SavedFirst, AtNewInputs, OncePerAnalysis, [Next]_vars
  PROVE  SavedFirst' /\ AtNewInputs' /\ OncePerAnalysis'
<1>1. CASE NothingHappens
  BY <1>1 DEF NothingHappens, Same, Left, SavedFirst, AtNewInputs, OncePerAnalysis
<1>2. ASSUME NEW r \in signals, Closes(r)
      PROVE SavedFirst' /\ AtNewInputs' /\ OncePerAnalysis'
  <2> DEFINE closed == [r EXCEPT !.status = "closed"]
  <2>1. closed.symbol = r.symbol /\ closed.cutoff = r.cutoff
    BY ClosedRow DEF TypeOK
  <2> HIDE DEF closed
  <2>2. signals' = (signals \ {r}) \cup {closed} /\ UNCHANGED <<snapshots, work>>
    BY <1>2 DEF Closes, closed
  <2>3. QED BY <2>1, <2>2 DEF SavedFirst, AtNewInputs, OncePerAnalysis
<1>3. ASSUME NEW i \in Inputs, SavesWithout(i)
      PROVE SavedFirst' /\ AtNewInputs' /\ OncePerAnalysis'
  BY <1>3 DEF SavesWithout, Same, Left, SavedFirst, AtNewInputs, OncePerAnalysis
<1>4. ASSUME NEW a \in Analysts, NEW i \in Inputs, Saves(a, i)
      PROVE SavedFirst' /\ AtNewInputs' /\ OncePerAnalysis'
  BY <1>4 DEF Saves, OthersSame, Same, SavedFirst, AtNewInputs, OncePerAnalysis
<1>5. ASSUME NEW a \in Analysts, Locks(a)
      PROVE SavedFirst' /\ AtNewInputs' /\ OncePerAnalysis'
  BY <1>5 DEF Locks, OthersSame, Same, SavedFirst, AtNewInputs, OncePerAnalysis
<1>6. ASSUME NEW a \in Analysts, Publishes(a)
      PROVE SavedFirst' /\ AtNewInputs' /\ OncePerAnalysis'
  <2> DEFINE i == work[a].input
  <2>1. i # NoInput /\ i \in Inputs
    BY <1>6 DEF Publishes, TypeOK, Work
  <2>2. <<i[1], i[2]>> = i
    BY <2>1 DEF Inputs
  <2>3. \A row \in NewRows(work[a]) :
          /\ row.symbol = i[1] /\ row.cutoff = i[2]
          /\ \A other \in NewRows(work[a]) : other = row
    BY <1>6, DecidedRows DEF Publishes
  <2>4. i \notin snapshots /\ \A b \in Analysts \ {a} : work[b].input # i
    BY <2>1 DEF AtNewInputs
  <2> HIDE DEF i
  <2>5. /\ signals' = signals \cup NewRows(work[a])
        /\ snapshots' = snapshots \cup {i}
        /\ work'[a].input = NoInput
        /\ \A b \in Analysts \ {a} : work'[b].input = work[b].input
    BY <1>6 DEF Publishes, Left, OthersSame, Same, i
  <2>6. SavedFirst'
    BY <2>2, <2>3, <2>5 DEF SavedFirst
  <2>7. AtNewInputs'
    BY <2>4, <2>5 DEF AtNewInputs
  <2>8. \A r \in signals, row \in NewRows(work[a]) :
          ~(r.symbol = row.symbol /\ r.cutoff = row.cutoff)
    BY <2>2, <2>3, <2>4 DEF SavedFirst
  <2>9. OncePerAnalysis'
    BY <2>3, <2>5, <2>8 DEF OncePerAnalysis
  <2>10. QED BY <2>6, <2>7, <2>9
<1>7. QED BY <1>1, <1>2, <1>3, <1>4, <1>5, <1>6, Effects

(* An analysis publishes at most one signal, once, whoever repeats it      *)
(* (save_analysis, publish_candidates).                                    *)
THEOREM PublicationOncePerAnalysis == Spec => []OncePerAnalysis
<1>1. Init => SavedFirst /\ AtNewInputs /\ OncePerAnalysis
  BY DEF Init, Idle, SavedFirst, AtNewInputs, OncePerAnalysis
<1>2. TypeOK /\ SavedFirst /\ AtNewInputs /\ OncePerAnalysis /\ [Next]_vars
        => SavedFirst' /\ AtNewInputs' /\ OncePerAnalysis'
  BY OnceStep
<1>3. QED BY <1>1, <1>2, PublicationTyped, PTL DEF Spec

-----------------------------------------------------------------------------
(* Whoever decides has read every signal that can still cool a symbol down:*)
(* since the rows were read under the lock signals were closed at most.    *)
SeesRecent ==
  \A a \in Analysts : work[a].phase = "deciding" =>
    \A r \in signals : r.created > work[a].time - Cooldown =>
      \E q \in work[a].seen : q.symbol = r.symbol /\ q.created = r.created

LEMMA ObservedIsEnough ==
  ASSUME TypeOK, NEW time \in Ticks, NEW length \in {Hour, Cooldown, BurstWindow},
         NEW r \in signals, r.created > time - length
  PROVE  r \in Observed(time)
<1> DEFINE S == {Hour, Cooldown, BurstWindow}
           m == Max(S)
<1>1. Hour \in Nat /\ Cooldown \in Nat /\ BurstWindow \in Nat
  BY DEF PublicationAssumption
<1>2. \E x \in S : \A y \in S : x >= y
  <2>1. CASE Hour >= Cooldown /\ Hour >= BurstWindow
    BY <1>1, <2>1
  <2>2. CASE Cooldown >= Hour /\ Cooldown >= BurstWindow
    BY <1>1, <2>2
  <2>3. CASE BurstWindow >= Hour /\ BurstWindow >= Cooldown
    BY <1>1, <2>3
  <2>4. QED BY <1>1, <2>1, <2>2, <2>3
<1>3. m \in S /\ \A y \in S : m >= y
  BY <1>2 DEF Max
<1>4. m \in Nat /\ m >= length /\ length \in Nat
  BY <1>1, <1>3
<1> HIDE DEF m
<1>5. r.created \in Int /\ time \in Int
  BY DEF TypeOK, Signal, Ticks
<1>6. r.created > time - m
  BY <1>4, <1>5
<1>7. QED BY <1>6 DEF Observed, Since, Earliest, m

LEMMA CooldownStep ==
  ASSUME TypeOK, SeesRecent, CooldownKept, [Next]_vars
  PROVE  SeesRecent' /\ CooldownKept'
<1>1. CASE NothingHappens
  BY <1>1 DEF NothingHappens, Same, Left, SeesRecent, CooldownKept
<1>2. ASSUME NEW r \in signals, Closes(r) PROVE SeesRecent' /\ CooldownKept'
  <2> DEFINE closed == [r EXCEPT !.status = "closed"]
  <2>1. closed.symbol = r.symbol /\ closed.created = r.created
    BY ClosedRow DEF TypeOK
  <2> HIDE DEF closed
  <2>2. signals' = (signals \ {r}) \cup {closed} /\ UNCHANGED work
    BY <1>2 DEF Closes, closed
  <2>3. SeesRecent'
    BY <2>1, <2>2 DEF SeesRecent
  <2>4. CooldownKept'
    BY <2>1, <2>2 DEF CooldownKept
  <2>5. QED BY <2>3, <2>4
<1>3. ASSUME NEW i \in Inputs, SavesWithout(i) PROVE SeesRecent' /\ CooldownKept'
  BY <1>3 DEF SavesWithout, Same, Left, SeesRecent, CooldownKept
<1>4. ASSUME NEW a \in Analysts, NEW i \in Inputs, Saves(a, i) PROVE SeesRecent' /\ CooldownKept'
  BY <1>4 DEF Saves, OthersSame, Same, SeesRecent, CooldownKept
<1>5. ASSUME NEW a \in Analysts, Locks(a) PROVE SeesRecent' /\ CooldownKept'
  <2>1. work[a].time \in Ticks
    BY DEF TypeOK, Work
  <2>2. \A r \in signals : r.created > work[a].time - Cooldown => r \in Observed(work[a].time)
    BY <2>1, ObservedIsEnough
  <2>3. QED BY <1>5, <2>2 DEF Locks, OthersSame, Same, SeesRecent, CooldownKept
<1>6. ASSUME NEW a \in Analysts, Publishes(a) PROVE SeesRecent' /\ CooldownKept'
  <2> DEFINE w == work[a]
  <2>1. \A row \in NewRows(w) :
          /\ row \in Signal /\ row.created = w.time
          /\ ~Cooling(row.symbol, w.seen, w.time)
          /\ \A other \in NewRows(w) : other = row
    BY <1>6, DecidedRows DEF Publishes
  <2>2. \A b \in Analysts : work'[b].phase # "deciding"
    BY <1>6 DEF Publishes, Left, OthersSame, Same, TypeOK
  <2>3. Cooldown \in Nat /\ w.time \in Int /\ \A r \in signals : r.created \in Int
    BY DEF PublicationAssumption, TypeOK, Work, Ticks, Signal
  <2>4. work[a].phase = "deciding" /\ signals' = signals \cup NewRows(w)
    BY <1>6 DEF Publishes
  <2>5. \A r \in signals, row \in NewRows(w) :
          r.symbol = row.symbol => r.created + Cooldown <= row.created
    <3> TAKE r \in signals, row \in NewRows(w)
    <3> HAVE r.symbol = row.symbol
    <3>1. ~(r.created > w.time - Cooldown)
      <4>1. SUFFICES ASSUME r.created > w.time - Cooldown PROVE FALSE
        OBVIOUS
      <4>2. PICK q \in w.seen : q.symbol = r.symbol /\ q.created = r.created
        BY <2>4, <4>1 DEF SeesRecent
      <4>3. q \in Since(OfSymbol(w.seen, row.symbol), w.time - Cooldown)
        BY <4>1, <4>2 DEF Since, OfSymbol
      <4>4. QED BY <2>1, <4>3 DEF Cooling
    <3>2. QED BY <2>1, <2>3, <3>1
  <2> HIDE DEF w
  <2>6. CooldownKept'
    BY <2>1, <2>4, <2>5 DEF CooldownKept
  <2>7. SeesRecent'
    BY <2>2 DEF SeesRecent
  <2>8. QED BY <2>6, <2>7
<1>7. QED BY <1>1, <1>2, <1>3, <1>4, <1>5, <1>6, Effects

(* Two signals of a symbol are a cooldown apart, although the time a       *)
(* signal gets is older than the lock it is decided under: the rows are    *)
(* read far enough back under the lock (publish_candidates).               *)
THEOREM PublicationCooldownKept == Spec => []CooldownKept
<1>1. Init => SeesRecent /\ CooldownKept
  BY DEF Init, SeesRecent, CooldownKept
<1>2. TypeOK /\ SeesRecent /\ CooldownKept /\ [Next]_vars => SeesRecent' /\ CooldownKept'
  BY CooldownStep
<1>3. QED BY <1>1, <1>2, PublicationTyped, PTL DEF Spec

-----------------------------------------------------------------------------
(* The limits count rows. While an analyst decides, signals are closed at  *)
(* most: those tracked are among the rows it has read, and no stretch of   *)
(* time holds more of them than it has seen.                               *)
Lengths == {Hour, BurstWindow}

SeesEnough ==
  \A a \in Analysts : work[a].phase = "deciding" =>
    /\ IsFiniteSet(work[a].seen)
    /\ Tracked(signals) \subseteq work[a].seen
    /\ \A length \in Lengths :
         Cardinality(Since(signals, work[a].time - length))
           <= Cardinality(Since(work[a].seen, work[a].time - length))

Finite == IsFiniteSet(signals)

LEMMA Added ==
  ASSUME NEW S, IsFiniteSet(S), NEW q, NEW T \in SUBSET (S \cup {q})
  PROVE  IsFiniteSet(T) /\ Cardinality(T) \in Nat /\ Cardinality(T) <= Cardinality(S) + 1
<1>1. /\ IsFiniteSet(S \cup {q}) /\ Cardinality(S) \in Nat
      /\ Cardinality(S \cup {q}) <= Cardinality(S) + 1
  <2>1. Cardinality(S) \in Nat
    BY FS_CardinalityType
  <2>2. /\ IsFiniteSet(S \cup {q})
        /\ Cardinality(S \cup {q}) = Cardinality(S) \/ Cardinality(S \cup {q}) = Cardinality(S) + 1
    BY FS_AddElement, Zenon
  <2>3. QED BY <2>1, <2>2
<1>2. IsFiniteSet(T) /\ Cardinality(T) <= Cardinality(S \cup {q})
  BY <1>1, FS_Subset
<1>3. Cardinality(T) \in Nat /\ Cardinality(S \cup {q}) \in Nat
  BY <1>1, <1>2, FS_CardinalityType
<1>4. QED BY <1>1, <1>2, <1>3

(* A row that takes the place of another does not add to a set.            *)
LEMMA Replaced ==
  ASSUME NEW S, IsFiniteSet(S), NEW r \in S, NEW q, NEW T \in SUBSET ((S \ {r}) \cup {q})
  PROVE  IsFiniteSet(T) /\ Cardinality(T) <= Cardinality(S)
<1> DEFINE R == S \ {r}
<1>1. IsFiniteSet(R) /\ Cardinality(R) = Cardinality(S) - 1 /\ Cardinality(S) \in Nat
  BY FS_RemoveElement, FS_CardinalityType
<1>2. T \in SUBSET (R \cup {q})
  OBVIOUS
<1> HIDE DEF R
<1>3. IsFiniteSet(T) /\ Cardinality(T) \in Nat /\ Cardinality(T) <= Cardinality(R) + 1
  BY <1>1, <1>2, Added
<1>4. QED BY <1>1, <1>3

LEMMA Among ==
  ASSUME NEW S, IsFiniteSet(S), NEW T \in SUBSET S
  PROVE  /\ IsFiniteSet(T) /\ Cardinality(T) \in Nat /\ Cardinality(S) \in Nat
         /\ Cardinality(T) <= Cardinality(S)
BY FS_Subset, FS_CardinalityType

(* Closing a row keeps the time of it, so no stretch of time gains one.    *)
LEMMA ClosingAddsNothing ==
  ASSUME TypeOK, IsFiniteSet(signals), NEW r \in signals, Closes(r)
  PROVE  /\ IsFiniteSet(signals')
         /\ Tracked(signals') \subseteq Tracked(signals)
         /\ \A C : Cardinality({q \in signals' : q.created \in C})
                   <= Cardinality({q \in signals : q.created \in C})
<1> DEFINE closed == [r EXCEPT !.status = "closed"]
<1>1. closed.created = r.created /\ closed.status = "closed"
  BY ClosedRow DEF TypeOK, Signal
<1> HIDE DEF closed
<1>2. signals' = (signals \ {r}) \cup {closed}
  BY DEF Closes, closed
<1>3. IsFiniteSet(signals')
  <2>1. signals' \in SUBSET ((signals \ {r}) \cup {closed})
    BY <1>2
  <2>2. QED BY <2>1, Replaced
<1>4. Tracked(signals') \subseteq Tracked(signals)
  BY <1>1, <1>2 DEF Tracked
<1>5. ASSUME NEW C
      PROVE  Cardinality({q \in signals' : q.created \in C})
               <= Cardinality({q \in signals : q.created \in C})
  <2> DEFINE S == {q \in signals : q.created \in C}
             T == {q \in signals' : q.created \in C}
  <2>1. IsFiniteSet(S)
    BY FS_Subset
  <2>2. CASE r \in S
    <3>1. T \subseteq (S \ {r}) \cup {closed}
      BY <1>1, <1>2, <2>2
    <3> HIDE DEF S, T
    <3>2. Cardinality(T) <= Cardinality(S)
      BY <2>1, <2>2, <3>1, Replaced
    <3>3. QED BY <3>2 DEF S, T
  <2>3. CASE r \notin S
    <3>1. T \subseteq S
      BY <1>1, <1>2, <2>3
    <3> HIDE DEF S, T
    <3>2. Cardinality(T) <= Cardinality(S)
      BY <2>1, <3>1, Among
    <3>3. QED BY <3>2 DEF S, T
  <2>4. QED BY <2>2, <2>3
<1>6. QED BY <1>3, <1>4, <1>5

LEMMA SinceIsInterval ==
  ASSUME NEW rows \in SUBSET Signal, NEW time \in Int
  PROVE  Since(rows, time) = {q \in rows : q.created \in {c \in Nat : c > time}}
BY DEF Since, Signal, Ticks

LEMMA LimitsStep ==
  ASSUME TypeOK, Finite, SeesEnough, PortfolioLimits, [Next]_vars
  PROVE  Finite' /\ SeesEnough' /\ PortfolioLimits'
<1>0. signals \subseteq Signal /\ \A a \in Analysts : work[a].time \in Nat /\ work[a].seen \subseteq Signal
  BY DEF TypeOK, Work, Ticks
<1> USE DEF Finite
<1>00. /\ Hour \in Nat /\ BurstWindow \in Nat /\ MaxActive \in Nat /\ MaxPerHour \in Nat
       /\ MaxBurst \in Nat /\ MaxTime \in Nat
  BY DEF PublicationAssumption
<1>1. CASE NothingHappens
  BY <1>1 DEF NothingHappens, Same, Left, SeesEnough, PortfolioLimits, Window
<1>2. ASSUME NEW r \in signals, Closes(r)
      PROVE  Finite' /\ SeesEnough' /\ PortfolioLimits'
  <2>1. /\ IsFiniteSet(signals')
        /\ Tracked(signals') \subseteq Tracked(signals)
        /\ \A C : Cardinality({q \in signals' : q.created \in C})
                  <= Cardinality({q \in signals : q.created \in C})
    BY <1>2, ClosingAddsNothing
  <2>2. signals' \subseteq Signal
    BY TypedStep DEF TypeOK
  <2>3. IsFiniteSet(Tracked(signals)) /\ \A C : IsFiniteSet({q \in signals : q.created \in C})
        /\ IsFiniteSet({q \in signals' : q.created \in C})
    BY <2>1, FS_Subset DEF Tracked
  <2>4. ASSUME NEW time \in Int
        PROVE  /\ Cardinality(Since(signals', time)) <= Cardinality(Since(signals, time))
               /\ Cardinality(Since(signals', time)) \in Nat
               /\ Cardinality(Since(signals, time)) \in Nat
    <3> DEFINE C == {c \in Nat : c > time}
    <3>1. /\ Since(signals, time) = {q \in signals : q.created \in C}
          /\ Since(signals', time) = {q \in signals' : q.created \in C}
      BY <1>0, <2>2, SinceIsInterval
    <3> HIDE DEF C
    <3>2. IsFiniteSet(Since(signals, time)) /\ IsFiniteSet(Since(signals', time))
      BY <2>3, <3>1
    <3>3. QED BY <2>1, <3>1, <3>2, FS_CardinalityType
  <2>5. ASSUME NEW a \in Analysts, work'[a].phase = "deciding"
        PROVE  /\ IsFiniteSet(work'[a].seen) /\ Tracked(signals') \subseteq work'[a].seen
               /\ \A length \in Lengths :
                    Cardinality(Since(signals', work'[a].time - length))
                      <= Cardinality(Since(work'[a].seen, work'[a].time - length))
    <3>1. UNCHANGED work
      BY <1>2 DEF Closes
    <3>2. /\ IsFiniteSet(work[a].seen) /\ Tracked(signals) \subseteq work[a].seen
          /\ \A length \in Lengths :
               Cardinality(Since(signals, work[a].time - length))
                 <= Cardinality(Since(work[a].seen, work[a].time - length))
      BY <2>5, <3>1 DEF SeesEnough
    <3>3. ASSUME NEW length \in Lengths
          PROVE  Cardinality(Since(signals', work[a].time - length))
                   <= Cardinality(Since(work[a].seen, work[a].time - length))
      <4>1. work[a].time - length \in Int
        BY <1>0, <1>00 DEF Lengths
      <4>2. Cardinality(Since(work[a].seen, work[a].time - length)) \in Nat
        BY <3>2, FS_Subset, FS_CardinalityType DEF Since
      <4>3. QED BY <2>4, <3>2, <4>1, <4>2
    <3>4. QED BY <2>1, <3>1, <3>2, <3>3
  <2>6. Cardinality(Tracked(signals')) <= MaxActive
    <3>1. /\ Cardinality(Tracked(signals')) <= Cardinality(Tracked(signals))
          /\ Cardinality(Tracked(signals')) \in Nat /\ Cardinality(Tracked(signals)) \in Nat
      BY <2>1, <2>3, Among
    <3>2. QED BY <1>00, <3>1 DEF PortfolioLimits
  <2>7. ASSUME NEW t \in Ticks, NEW length \in Lengths, NEW limit \in Nat,
               Cardinality(Window(t, length)) <= limit
        PROVE  Cardinality(Window(t, length)') <= limit
    <3>1. /\ Cardinality(Window(t, length)') <= Cardinality(Window(t, length))
          /\ Cardinality(Window(t, length)') \in Nat /\ Cardinality(Window(t, length)) \in Nat
      BY <2>1, <2>3, FS_CardinalityType DEF Window
    <3>2. QED BY <2>7, <3>1
  <2>8. PortfolioLimits'
    BY <1>00, <2>6, <2>7 DEF PortfolioLimits, Lengths
  <2>9. QED BY <2>1, <2>5, <2>8 DEF SeesEnough
<1>3. ASSUME NEW i \in Inputs, SavesWithout(i)
      PROVE  Finite' /\ SeesEnough' /\ PortfolioLimits'
  BY <1>3 DEF SavesWithout, Same, Left, SeesEnough, PortfolioLimits, Window
<1>4. ASSUME NEW a \in Analysts, NEW i \in Inputs, Saves(a, i)
      PROVE  Finite' /\ SeesEnough' /\ PortfolioLimits'
  BY <1>4 DEF Saves, OthersSame, Same, SeesEnough, PortfolioLimits, Window
<1>5. ASSUME NEW a \in Analysts, Locks(a)
      PROVE  Finite' /\ SeesEnough' /\ PortfolioLimits'
  <2> DEFINE time == work[a].time
             seen == Observed(time)
  <2>1. UNCHANGED signals /\ work'[a].seen = seen /\ work'[a].time = time /\ OthersSame(a)
    BY <1>5 DEF Locks
  <2>2. seen \subseteq signals /\ Tracked(signals) \subseteq seen
    BY DEF Observed, Tracked, Since
  <2>3. IsFiniteSet(seen)
    BY <2>2, FS_Subset
  <2>4. ASSUME NEW length \in Lengths
        PROVE  Cardinality(Since(signals, time - length)) <= Cardinality(Since(seen, time - length))
    <3>1. time \in Ticks /\ length \in {Hour, Cooldown, BurstWindow}
      BY DEF TypeOK, Work, Lengths
    <3>2. Since(signals, time - length) \subseteq Since(seen, time - length)
      BY <3>1, ObservedIsEnough DEF Since
    <3>3. IsFiniteSet(Since(seen, time - length))
      BY <2>3, FS_Subset DEF Since
    <3>4. QED BY <3>2, <3>3, Among
  <2> HIDE DEF time, seen
  <2>5. SeesEnough'
    BY <2>1, <2>2, <2>3, <2>4 DEF SeesEnough, OthersSame, Same
  <2>6. PortfolioLimits'
    BY <2>1 DEF PortfolioLimits, Window
  <2>7. QED BY <2>1, <2>5, <2>6
<1>6. ASSUME NEW a \in Analysts, Publishes(a)
      PROVE  Finite' /\ SeesEnough' /\ PortfolioLimits'
  <2> DEFINE w == work[a]
  <2>1. \A b \in Analysts : work'[b].phase # "deciding"
    BY <1>6 DEF Publishes, Left, OthersSame, Same, TypeOK
  <2>2. SeesEnough'
    BY <2>1 DEF SeesEnough
  <2>3. CASE NewRows(w) = {}
    <3>1. UNCHANGED signals
      BY <1>6, <2>3 DEF Publishes
    <3>2. QED BY <2>2, <3>1 DEF PortfolioLimits, Window
  <2>4. ASSUME NEW row \in NewRows(w) PROVE IsFiniteSet(signals') /\ PortfolioLimits'
    <3>1. signals' = signals \cup {row} /\ row.created = w.time
      BY <1>6, <2>4, DecidedRows DEF Publishes
    <3>2. IsFiniteSet(signals')
      BY <3>1, Added
    <3>3. \E rows : Publishable(w.input, w.abnormal, rows, w.time) /\ w.seen \subseteq rows /\ IsFiniteSet(rows)
      <4>1. IsFiniteSet(w.seen)
        BY <1>6 DEF Publishes, SeesEnough
      <4>2. ASSUME NEW d, NEW rows, row \in Decided(w, d, rows)
            PROVE  Publishable(w.input, w.abnormal, rows, w.time)
        BY <4>2 DEF Decided
      <4>3. IsFiniteSet(w.seen \cup Decided(w, "long", w.seen))
        <5>1. Decided(w, "long", w.seen) = {}
              \/ \E q : Decided(w, "long", w.seen) = {q}
          BY DEF Decided
        <5>2. QED BY <4>1, <5>1, FS_AddElement
      <4> HIDE DEF w
      <4>4. QED BY <2>4, <4>1, <4>2, <4>3 DEF NewRows
    <3>4. PICK rows : Publishable(w.input, w.abnormal, rows, w.time) /\ w.seen \subseteq rows /\ IsFiniteSet(rows)
      BY <3>3
    <3>5. /\ Cardinality(Tracked(rows)) < MaxActive
          /\ Cardinality(Since(rows, w.time - Hour)) < MaxPerHour
          /\ Cardinality(Since(rows, w.time - BurstWindow)) < MaxBurst
      BY <3>4 DEF Publishable
    <3>6. /\ IsFiniteSet(w.seen) /\ Tracked(signals) \subseteq w.seen
          /\ \A length \in Lengths :
               Cardinality(Since(signals, w.time - length))
                 <= Cardinality(Since(w.seen, w.time - length))
      BY <1>6 DEF Publishes, SeesEnough
    <3>7. w.time \in Nat /\ w.seen \subseteq Signal
      BY <1>0
    <3> HIDE DEF w
    <3>8. Cardinality(Tracked(signals')) <= MaxActive
      <4>1. IsFiniteSet(Tracked(rows)) /\ Tracked(signals) \subseteq Tracked(rows)
        BY <3>4, <3>6, FS_Subset DEF Tracked
      <4>2. Tracked(signals') \subseteq Tracked(rows) \cup {row}
        BY <3>1, <4>1 DEF Tracked
      <4>3. /\ Cardinality(Tracked(signals')) \in Nat
            /\ Cardinality(Tracked(signals')) <= Cardinality(Tracked(rows)) + 1
        BY <4>1, <4>2, Added
      <4>4. Cardinality(Tracked(rows)) \in Nat
        BY <4>1, FS_CardinalityType
      <4>5. QED BY <1>00, <3>5, <4>3, <4>4
    <3>9. ASSUME NEW t \in Ticks, NEW length \in Lengths, NEW limit \in Nat,
                 Cardinality(Window(t, length)) <= limit,
                 Cardinality(Since(rows, w.time - length)) < limit
          PROVE  Cardinality(Window(t, length)') <= limit
      <4>1. t \in Nat /\ length \in Nat
        BY <1>00 DEF Ticks, Lengths
      <4>2. CASE row.created \in t..(t + length - 1)
        <5>1. Window(t, length)' \subseteq Since(signals, w.time - length) \cup {row}
          <6>1. \A r \in signals : r.created \in t..(t + length - 1) => r.created > w.time - length
            BY <1>0, <3>1, <3>7, <4>1, <4>2 DEF Signal, Ticks
          <6>2. QED BY <3>1, <6>1 DEF Window, Since
        <5>2. /\ IsFiniteSet(Since(signals, w.time - length))
              /\ IsFiniteSet(Since(w.seen, w.time - length))
              /\ IsFiniteSet(Since(rows, w.time - length))
              /\ Since(w.seen, w.time - length) \subseteq Since(rows, w.time - length)
          BY <3>4, <3>6, FS_Subset DEF Since
        <5>3. /\ Cardinality(Since(w.seen, w.time - length)) <= Cardinality(Since(rows, w.time - length))
              /\ Cardinality(Since(w.seen, w.time - length)) \in Nat
              /\ Cardinality(Since(rows, w.time - length)) \in Nat
              /\ Cardinality(Since(signals, w.time - length)) \in Nat
          BY <5>2, Among
        <5>4. /\ Cardinality(Window(t, length)') \in Nat
              /\ Cardinality(Window(t, length)') <= Cardinality(Since(signals, w.time - length)) + 1
          <6> DEFINE W == Window(t, length)'
                     S == Since(signals, w.time - length)
          <6>1. W \in SUBSET (S \cup {row}) /\ IsFiniteSet(S)
            BY <5>1, <5>2
          <6> HIDE DEF W, S
          <6>2. Cardinality(W) \in Nat /\ Cardinality(W) <= Cardinality(S) + 1
            BY <6>1, Added
          <6>3. QED BY <6>2 DEF W, S
        <5>5. Cardinality(Since(signals, w.time - length)) <= Cardinality(Since(w.seen, w.time - length))
          BY <3>6
        <5>6. QED BY <3>9, <5>3, <5>4, <5>5
      <4>3. CASE row.created \notin t..(t + length - 1)
        <5>1. Window(t, length)' = Window(t, length)
          BY <3>1, <4>3 DEF Window
        <5>2. QED BY <3>9, <5>1
      <4>4. QED BY <4>2, <4>3
    <3>10. PortfolioLimits'
      BY <1>00, <3>5, <3>8, <3>9 DEF PortfolioLimits, Lengths
    <3>11. QED BY <3>2, <3>10
  <2>5. QED BY <2>2, <2>3, <2>4
<1>7. QED BY <1>1, <1>2, <1>3, <1>4, <1>5, <1>6, Effects

(* No stretch of an hour or of a burst window, wherever it begins, has     *)
(* more signals than its limit, and no moment more tracked ones, although  *)
(* what an analyst publishes may be dated before what another published    *)
(* while it waited for the lock (publish_candidates).                      *)
THEOREM PublicationLimits == Spec => []PortfolioLimits
<1>1. Init => Finite /\ SeesEnough /\ PortfolioLimits
  <2> SUFFICES ASSUME Init PROVE Finite /\ SeesEnough /\ PortfolioLimits
    OBVIOUS
  <2>1. signals = {} /\ \A a \in Analysts : work[a].phase = "cycle"
    BY DEF Init, Idle
  <2>2. IsFiniteSet({}) /\ Cardinality({}) = 0
    BY FS_EmptySet
  <2>3. Tracked(signals) = {} /\ \A t \in Ticks, length \in Lengths : Window(t, length) = {}
    BY <2>1 DEF Tracked, Window
  <2>4. MaxActive >= 0 /\ MaxPerHour >= 0 /\ MaxBurst >= 0
    BY DEF PublicationAssumption
  <2>5. QED BY <2>1, <2>2, <2>3, <2>4 DEF Finite, SeesEnough, PortfolioLimits, Lengths
<1>2. TypeOK /\ Finite /\ SeesEnough /\ PortfolioLimits /\ [Next]_vars
        => Finite' /\ SeesEnough' /\ PortfolioLimits'
  BY LimitsStep
<1>3. QED BY <1>1, <1>2, PublicationTyped, PTL DEF Spec
=============================================================================
