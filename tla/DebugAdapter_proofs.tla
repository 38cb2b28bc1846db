-------------------------- MODULE DebugAdapter_proofs ---------------------------
(* Proofs about the debug adapter: for every list of variables the CLI may ask   *)
(* for, every program and every timing of the two deadlines, the CLI reads whole *)
(* pairs in its order, all of one instant, and no program is left behind.        *)
EXTENDS DebugAdapter, DebugLayout, NinjaNames,
        FiniteSetTheorems, WellFoundedInduction, SequenceTheorems, TLAPS

(* What a CLI asks for is a list, and not an empty one. *)
LEMMA RequestsType == Requests \subseteq Seq(Kinds) \ {<<>>}
  BY BoundAssumption DEF Requests

USE RequestsType, BoundAssumption

(* What the wire holds at each point of main(): nothing before the hit, then a   *)
(* pair for each variable the loop has passed, and each of those was readable.   *)
ReadableUpTo(n) == \A i \in 1 .. n : wanted[i] \in Readable
SilentOK == pc \in {"start", "wait"} => next = 1 /\ wire = <<>>
EmitOK == pc = "emit" => PairsSent(next - 1) /\ ReadableUpTo(next - 1)
AfterLoopOK ==
    pc \in {"await", "exitwait"} => PairsSent(Len(wanted)) /\ ReadableUpTo(Len(wanted))
UnlaunchedOK == pc = "start" => program = "none"

WireOK == SilentOK /\ EmitOK /\ AfterLoopOK /\ CompleteOnSuccess
IInv == TypeOK /\ WireOK /\ UnlaunchedOK /\ FrozenUntilContinue /\ NoProgramLeftBehind

--------------------------------------------------------------------------------
(* Facts about the wire. *)

LEMMA Lists ==
    ASSUME TypeOK
    PROVE  wanted \in Seq(Kinds) /\ wanted # <<>> /\ Len(wanted) \in Nat /\ next \in Nat /\ next >= 1
  <1>1. wanted \in Seq(Kinds) /\ wanted # <<>>
    BY DEF TypeOK
  <1>2. Len(wanted) \in Nat
    BY <1>1
  <1> QED
    BY <1>1, <1>2 DEF TypeOK

(* A step that writes nothing leaves the pairs as they are. *)
LEMMA SamePairs ==
    ASSUME UNCHANGED <<wire, wanted>>, NEW n
    PROVE  PairsSent(n)' <=> PairsSent(n)
  BY DEF PairsSent, Layout, Hit

LEMMA HitAlone ==
    ASSUME wire = <<>>, wire' = Append(wire, Hit)
    PROVE  PairsSent(0)'
  BY DEF PairsSent, Hit

(* One iteration of the loop adds one pair. *)
LEMMA OnePairMore ==
    ASSUME TypeOK, NEW n \in Nat, PairsSent(n), UNCHANGED wanted,
           wire' = wire \o <<Bytes(n + 1), Layout(n + 1)>>
    PROVE  PairsSent(n + 1)'
  <1> DEFINE two == <<Bytes(n + 1), Layout(n + 1)>>
  <1>1. wire \in Seq(Records) /\ Len(wire) = 2 * n + 1 /\ wire[1] = Hit
    BY DEF TypeOK, PairsSent, Hit
  <1>2. Len(wire') = 2 * (n + 1) + 1
    BY <1>1
  <1>3. /\ \A k \in 1 .. 2 * n + 1 : wire'[k] = wire[k]
        /\ wire'[2 * (n + 1)] = Bytes(n + 1) /\ wire'[2 * (n + 1) + 1] = Layout(n + 1)
    BY <1>1
  <1>4. \A i \in 1 .. n : 2 * i \in 1 .. 2 * n + 1 /\ 2 * i + 1 \in 1 .. 2 * n + 1
    OBVIOUS
  <1>5. \A i \in 1 .. n : /\ wire[2 * i].kind = "var_bytes" /\ wire[2 * i].variable = i
                          /\ wire[2 * i + 1] = Layout(i)
    BY DEF PairsSent
  <1>6. ASSUME NEW i \in 1 .. n + 1
        PROVE  /\ wire'[2 * i].kind = "var_bytes" /\ wire'[2 * i].variable = i
               /\ wire'[2 * i + 1] = Layout(i)
    <2>1. CASE i = n + 1
      <3>1. wire'[2 * i] = Bytes(i) /\ wire'[2 * i + 1] = Layout(i)
        BY <1>3, <2>1
      <3>2. Bytes(i).kind = "var_bytes" /\ Bytes(i).variable = i
        BY DEF Bytes
      <3> QED
        BY <3>1, <3>2
    <2>2. CASE i # n + 1
      <3>1. i \in 1 .. n
        BY <2>2
      <3> QED
        BY <1>3, <1>4, <1>5, <3>1
    <2> QED
      BY <2>1, <2>2
  <1>7. wire'[1] = Hit
    BY <1>1, <1>3
  <1> QED
    BY <1>2, <1>6, <1>7 DEF PairsSent, Hit, Layout

--------------------------------------------------------------------------------
(* Type correctness. *)

LEMMA PairType ==
    ASSUME TypeOK
    PROVE  Hit \in Records /\ Bytes(next) \in Records /\ Layout(next) \in Records
  <1>1. next \in Nat /\ memory \in 0 .. MaxRuns
    BY Lists DEF TypeOK
  <1>2. (wanted[next] = "struct") \in BOOLEAN
    OBVIOUS
  <1> QED
    BY <1>1, <1>2 DEF Hit, Bytes, Layout, Records

LEMMA InputType ==
    ASSUME input \in Seq({"continue", "other", "eof"}), input # <<>>
    PROVE  Tail(input) \in Seq({"continue", "other", "eof"})
  OBVIOUS

LEMMA TypeStep ==
    ASSUME TypeOK, [Next]_vars
    PROVE  TypeOK'
  <1>0. Len(wanted) \in Nat /\ next \in Nat /\ next >= 1 /\ next <= Len(wanted) + 1
    BY Lists DEF TypeOK
  <1> USE DEF adapter, inferior, cli, Goto, Return, Killed, Resume, ExitCodes, Alive, Gone
  <1>1. CASE UNCHANGED vars
    BY <1>1 DEF TypeOK, vars
  <1>2. CASE LaunchFails \/ Launch
    BY <1>2 DEF TypeOK, LaunchFails, Launch
  <1>3. CASE WaitEnds
    BY <1>3 DEF TypeOK, WaitEnds
  <1>4. CASE BreakpointFound
    <2>1. Append(wire, Hit) \in Seq(Records)
      BY PairType DEF TypeOK
    <2> QED
      BY <1>4, <2>1 DEF TypeOK, BreakpointFound
  <1>5. CASE OtherStop
    BY <1>5 DEF TypeOK, OtherStop
  <1>6. CASE EmitVariable
    <2>1. wire \o <<Bytes(next), Layout(next)>> \in Seq(Records)
      BY PairType DEF TypeOK
    <2>2. ASSUME next' = next + 1, next <= Len(wanted), UNCHANGED wanted
          PROVE  next' \in 1 .. Len(wanted') + 1
      BY <1>0, <2>2
    <2>3. \/ \E c \in {3, 4} : Refuse(c) /\ UNCHANGED wire
          \/ /\ wire' = wire \o <<Bytes(next), Layout(next)>>
             /\ next' = next + 1
             /\ UNCHANGED <<pc, code, wanted, inferior>>
      BY <1>6 DEF EmitVariable, Absent
    <2>4. next <= Len(wanted) /\ UNCHANGED <<late, cli>>
      BY <1>6 DEF EmitVariable
    <2>5. CASE \E c \in {3, 4} : Refuse(c) /\ UNCHANGED wire
      BY <2>4, <2>5 DEF TypeOK, Refuse
    <2>6. CASE /\ wire' = wire \o <<Bytes(next), Layout(next)>>
               /\ next' = next + 1
               /\ UNCHANGED <<pc, code, wanted, inferior>>
      BY <2>1, <2>2, <2>4, <2>6 DEF TypeOK
    <2> QED
      BY <2>3, <2>5, <2>6
  <1>7. CASE AllEmitted
    BY <1>7 DEF TypeOK, AllEmitted
  <1>8. CASE AwaitContinue
    <2>1. input' \in Seq({"continue", "other", "eof"})
      BY <1>8, InputType DEF TypeOK, AwaitContinue
    <2> QED
      BY <1>8, <2>1 DEF TypeOK, AwaitContinue
  <1>9. CASE ExitSeen \/ ExitTimesOut
    BY <1>9 DEF TypeOK, ExitSeen, ExitTimesOut
  <1>10. CASE Stops \/ Ends
    <2>1. memory' \in 0 .. MaxRuns
      BY <1>10 DEF TypeOK, Stops, Ends, Ran
    <2> QED
      BY <1>10, <2>1 DEF TypeOK, Stops, Ends
  <1>11. CASE Tick
    BY <1>11 DEF TypeOK, Tick
  <1>12. CASE Sends \/ Closes
    <2>1. sent' \in 0 .. MaxInput
      BY <1>12 DEF TypeOK, Sends, Closes
    <2>2. PICK l \in {"continue", "other", "eof"} : input' = Append(input, l)
      BY <1>12 DEF Sends, Closes
    <2>3. input' \in Seq({"continue", "other", "eof"})
      BY <2>2 DEF TypeOK
    <2>4. UNCHANGED <<adapter, late, inferior, wire>>
      BY <1>12 DEF Sends, Closes
    <2> QED
      BY <2>1, <2>3, <2>4 DEF TypeOK
  <1> QED
    BY <1>1, <1>2, <1>3, <1>4, <1>5, <1>6, <1>7, <1>8, <1>9, <1>10, <1>11, <1>12
       DEF Next, AdapterStep, Environment

--------------------------------------------------------------------------------
(* What the wire holds. *)

(* Every step but the hit, the loop's and the returns leaves the wire, the loop  *)
(* and the phase of main() alone.                                                *)
LEMMA WireKept ==
    ASSUME TypeOK, WireOK, UNCHANGED <<pc, code, wanted, next, wire>>
    PROVE  WireOK'
  <1>1. \A n : PairsSent(n)' <=> PairsSent(n)
    BY SamePairs
  <1>2. \A n : ReadableUpTo(n)' <=> ReadableUpTo(n)
    BY DEF ReadableUpTo
  <1>3. SilentOK'
    BY DEF WireOK, SilentOK
  <1>4. EmitOK'
    BY <1>1, <1>2 DEF WireOK, EmitOK
  <1>5. AfterLoopOK'
    BY <1>1, <1>2 DEF WireOK, AfterLoopOK
  <1>6. CompleteOnSuccess'
    BY <1>1 DEF WireOK, CompleteOnSuccess
  <1> QED
    BY <1>3, <1>4, <1>5, <1>6 DEF WireOK

(* A return with an error code keeps what was sent: whole pairs. *)
LEMMA ErrorReturn ==
    ASSUME TypeOK, WireOK, NEW c, c # 0, Return(c), UNCHANGED wire
    PROVE  WireOK'
  <1>1. \A n : PairsSent(n)' <=> PairsSent(n)
    BY SamePairs DEF Return
  <1>2. pc' = "done" /\ code' = c /\ wanted' = wanted
    BY DEF Return
  <1>3. (wire = <<>> \/ \E n \in 0 .. Len(wanted) : PairsSent(n))'
    BY <1>1, <1>2 DEF WireOK, CompleteOnSuccess
  <1> QED
    BY <1>2, <1>3 DEF WireOK, SilentOK, EmitOK, AfterLoopOK, CompleteOnSuccess

(* A return with code 0 is from behind the loop. *)
LEMMA SuccessReturn ==
    ASSUME TypeOK, WireOK, pc = "exitwait", Return(0), UNCHANGED wire
    PROVE  WireOK'
  <1>1. \A n : PairsSent(n)' <=> PairsSent(n)
    BY SamePairs DEF Return
  <1>2. pc' = "done" /\ wanted' = wanted
    BY DEF Return
  <1>3. PairsSent(Len(wanted)) /\ ReadableUpTo(Len(wanted))
    BY DEF WireOK, AfterLoopOK
  <1>4. CompleteOnSuccess'
    BY <1>1, <1>2, <1>3 DEF WireOK, CompleteOnSuccess, ReadableUpTo
  <1> QED
    BY <1>2, <1>4 DEF WireOK, SilentOK, EmitOK, AfterLoopOK

LEMMA WireStep ==
    ASSUME TypeOK, WireOK, [Next]_vars
    PROVE  WireOK'
  <1>0. Len(wanted) \in Nat /\ next \in Nat /\ next >= 1 /\ next <= Len(wanted) + 1
    BY Lists DEF TypeOK
  <1>1. CASE UNCHANGED vars \/ Environment
    BY <1>1, WireKept DEF vars, adapter, Environment, Stops, Ends, Tick, Sends, Closes
  <1>2. CASE LaunchFails
    BY <1>2, ErrorReturn DEF LaunchFails
  <1>3. CASE Launch
    <2>1. /\ pc = "start" /\ pc' = "wait" /\ UNCHANGED <<code, wanted, next, wire>>
          /\ next = 1 /\ wire = <<>>
      BY <1>3 DEF Launch, Goto, WireOK, SilentOK
    <2> QED
      BY <2>1 DEF WireOK, SilentOK, EmitOK, AfterLoopOK, CompleteOnSuccess
  <1>4. CASE WaitEnds
    BY <1>4, ErrorReturn DEF WaitEnds
  <1>5. CASE BreakpointFound
    <2>1. CASE Return(3) /\ UNCHANGED wire
      BY <2>1, ErrorReturn
    <2>2. CASE Goto("emit") /\ wire' = Append(wire, Hit)
      <3>1. next = 1 /\ wire = <<>> /\ pc' = "emit" /\ UNCHANGED <<code, wanted, next>>
        BY <1>5, <2>2 DEF BreakpointFound, Goto, WireOK, SilentOK
      <3>2. PairsSent(0)'
        BY <2>2, <3>1, HitAlone
      <3>3. EmitOK'
        <4>1. ReadableUpTo(next - 1)'
          BY <3>1 DEF ReadableUpTo
        <4>2. next' - 1 = 0
          BY <3>1
        <4> QED
          BY <3>2, <4>1, <4>2 DEF EmitOK
      <3>4. (\E n \in 0 .. Len(wanted) : PairsSent(n))'
        BY <1>0, <3>1, <3>2
      <3> QED
        BY <3>1, <3>3, <3>4 DEF WireOK, SilentOK, AfterLoopOK, CompleteOnSuccess
    <2> QED
      BY <1>5, <2>1, <2>2 DEF BreakpointFound
  <1>6. CASE OtherStop
    <2>1. CASE Return(3)
      BY <1>6, <2>1, ErrorReturn DEF OtherStop
    <2>2. CASE Goto("wait")
      BY <1>6, <2>2, WireKept DEF OtherStop, Goto
    <2> QED
      BY <1>6, <2>1, <2>2 DEF OtherStop
  <1>7. CASE EmitVariable
    <2>1. PairsSent(next - 1) /\ ReadableUpTo(next - 1) /\ next <= Len(wanted)
      BY <1>7 DEF EmitVariable, WireOK, EmitOK
    <2>2. CASE \E c \in {3, 4} : Refuse(c) /\ UNCHANGED wire
      BY <2>2, ErrorReturn DEF Refuse
    <2>3. CASE /\ wanted[next] \in Readable
               /\ wire' = wire \o <<Bytes(next), Layout(next)>>
               /\ next' = next + 1
               /\ UNCHANGED <<pc, code, wanted, inferior>>
      <3>1. next - 1 \in Nat /\ (next - 1) + 1 = next
        BY <1>0
      <3>2. ASSUME NEW n \in Nat, n + 1 = next PROVE PairsSent(n + 1)'
        <4>1. n = next - 1
          BY <3>2, <1>0
        <4>2. PairsSent(n) /\ wire' = wire \o <<Bytes(n + 1), Layout(n + 1)>>
          BY <2>1, <2>3, <3>2, <4>1
        <4> QED
          BY <2>3, <4>2, OnePairMore
      <3>3. next' - 1 = next /\ pc' = "emit" /\ next \in 0 .. Len(wanted)
        BY <1>0, <1>7, <2>1, <2>3 DEF EmitVariable
      <3>4. ReadableUpTo(next)
        <4>1. \A i \in 1 .. next : i = next \/ i \in 1 .. next - 1
          BY <1>0
        <4>2. wanted[next] \in Readable
          BY <2>3
        <4> QED
          BY <2>1, <4>1, <4>2 DEF ReadableUpTo
      <3>5. \A n \in Nat : n = next' - 1 => PairsSent(n)'
        <4>1. ASSUME NEW n \in Nat, n = next' - 1 PROVE PairsSent(n)'
          <5>1. PICK m \in Nat : m + 1 = next
            BY <3>1
          <5>2. n = m + 1
            BY <3>3, <4>1, <5>1
          <5> QED
            BY <3>2, <5>1, <5>2
        <4> QED
          BY <4>1
      <3>6. UNCHANGED wanted
        BY <2>3
      <3>7. ReadableUpTo(next - 1)'
        BY <3>3, <3>4, <3>6 DEF ReadableUpTo
      <3>8. PairsSent(next - 1)'
        BY <1>0, <3>3, <3>5 DEF PairsSent, Layout, Hit
      <3>9. (\E n \in 0 .. Len(wanted) : PairsSent(n))'
        BY <1>0, <3>3, <3>5, <3>6
      <3> QED
        BY <3>3, <3>7, <3>8, <3>9 DEF WireOK, SilentOK, EmitOK, AfterLoopOK, CompleteOnSuccess
    <2>4. next \in 1 .. Len(wanted) /\ wanted \in Seq(Kinds)
      BY <1>0, <2>1, Lists
    <2>5. wanted[next] \in Kinds
      BY <2>4
    <2>6. CASE wanted[next] \in Readable
      BY <1>7, <2>3, <2>6 DEF EmitVariable, Readable
    <2>7. CASE wanted[next] \notin Readable
      BY <1>7, <2>2, <2>5, <2>7 DEF EmitVariable, Absent, Kinds, Readable
    <2> QED
      BY <2>6, <2>7
  <1>8. CASE AllEmitted
    <2>1. next = Len(wanted) + 1 /\ pc = "emit" /\ pc' = "await" /\ UNCHANGED <<code, wanted, next, wire>>
      BY <1>0, <1>8 DEF AllEmitted, Goto
    <2>2. PairsSent(Len(wanted)) /\ ReadableUpTo(Len(wanted))
      <3>1. next - 1 = Len(wanted)
        BY <1>0, <2>1
      <3> QED
        BY <2>1, <3>1 DEF WireOK, EmitOK
    <2>3. PairsSent(Len(wanted))'
      BY <2>1, <2>2, SamePairs
    <2>4. Len(wanted') \in 0 .. Len(wanted')
      BY <1>0, <2>1
    <2> QED
      BY <2>1, <2>2, <2>3, <2>4 DEF WireOK, SilentOK, EmitOK, AfterLoopOK, CompleteOnSuccess, ReadableUpTo
  <1>9. CASE AwaitContinue
    <2>1. pc = "await" /\ pc' \in {"await", "exitwait"} /\ UNCHANGED <<code, wanted, next, wire>>
      BY <1>9 DEF AwaitContinue, Goto
    <2>2. PairsSent(Len(wanted))' /\ PairsSent(Len(wanted))
      BY <2>1, SamePairs DEF WireOK, AfterLoopOK
    <2>3. Len(wanted') \in 0 .. Len(wanted')
      BY <1>0, <2>1
    <2>4. AfterLoopOK'
      BY <2>1, <2>2 DEF WireOK, AfterLoopOK, ReadableUpTo
    <2> QED
      BY <2>1, <2>2, <2>3, <2>4 DEF WireOK, SilentOK, EmitOK, CompleteOnSuccess
  <1>10. CASE ExitSeen \/ ExitTimesOut
    BY <1>10, SuccessReturn DEF ExitSeen, ExitTimesOut
  <1> QED
    BY <1>1, <1>2, <1>3, <1>4, <1>5, <1>6, <1>7, <1>8, <1>9, <1>10 DEF Next, AdapterStep

--------------------------------------------------------------------------------
(* The program. *)

(* It is launched once, and only a program that is alive can come alive again:   *)
(* no return leaves it so, and after a return nobody resumes it.                 *)
LEMMA ProgramStep ==
    ASSUME TypeOK, UnlaunchedOK, FrozenUntilContinue, NoProgramLeftBehind, [Next]_vars
    PROVE  UnlaunchedOK' /\ NoProgramLeftBehind'
  <1> USE DEF adapter, inferior, cli, Goto, Return, Killed, Resume, Alive, Gone,
              UnlaunchedOK, NoProgramLeftBehind
  <1>1. CASE UNCHANGED vars
    BY <1>1 DEF vars
  <1>2. CASE LaunchFails \/ Launch
    BY <1>2 DEF LaunchFails, Launch
  <1>3. CASE WaitEnds \/ BreakpointFound \/ OtherStop
    BY <1>3 DEF WaitEnds, BreakpointFound, OtherStop
  <1>4. CASE EmitVariable
    <2>1. \/ \E c \in {3, 4} : Refuse(c)
          \/ UNCHANGED pc
      BY <1>4 DEF EmitVariable, Absent
    <2> QED
      BY <1>4, <2>1 DEF EmitVariable, Refuse
  <1>5. CASE AllEmitted \/ AwaitContinue
    BY <1>5 DEF AllEmitted, AwaitContinue
  <1>6. CASE ExitSeen \/ ExitTimesOut
    BY <1>6 DEF ExitSeen, ExitTimesOut
  <1>7. CASE Environment
    BY <1>7 DEF Environment, Stops, Ends, Tick, Sends, Closes
  <1> QED
    BY <1>1, <1>2, <1>3, <1>4, <1>5, <1>6, <1>7 DEF Next, AdapterStep

(* Between the hit and the continue the program is stopped, so nothing runs it   *)
(* and its memory is the one the hit found.                                      *)
ValuesAreOf(records, m) ==
    \A k \in DOMAIN records : records[k].kind = "var_bytes" => records[k].memory = m

LEMMA PairOfNow ==
    ASSUME TypeOK, ValuesAreOf(wire, memory),
           wire' = wire \o <<Bytes(next), Layout(next)>>
    PROVE  ValuesAreOf(wire', memory)
  <1>1. wire \in Seq(Records)
    BY DEF TypeOK
  <1>2. ASSUME NEW k \in DOMAIN wire', wire'[k].kind = "var_bytes" PROVE wire'[k].memory = memory
    <2>1. CASE k \in DOMAIN wire
      <3>1. wire'[k] = wire[k]
        BY <1>1, <2>1
      <3> QED
        BY <1>2, <2>1, <3>1 DEF ValuesAreOf
    <2>2. CASE k \notin DOMAIN wire
      <3>1. wire'[k] = Bytes(next) \/ wire'[k] = Layout(next)
        BY <1>1, <1>2, <2>2
      <3>2. Bytes(next).memory = memory /\ Layout(next).kind # "var_bytes"
        BY DEF Bytes, Layout
      <3> QED
        BY <1>2, <3>1, <3>2
    <2> QED
      BY <2>1, <2>2
  <1> QED
    BY <1>2 DEF ValuesAreOf

LEMMA FrozenStep ==
    ASSUME TypeOK, SilentOK, FrozenUntilContinue, [Next]_vars
    PROVE  FrozenUntilContinue'
  <1> USE DEF adapter, inferior, cli, Goto, Return
  <1>1. CASE UNCHANGED vars
    BY <1>1 DEF vars, FrozenUntilContinue
  <1>2. CASE LaunchFails \/ Launch \/ WaitEnds \/ OtherStop \/ ExitSeen \/ ExitTimesOut
    BY <1>2 DEF LaunchFails, Launch, WaitEnds, OtherStop, ExitSeen, ExitTimesOut, FrozenUntilContinue
  <1>3. CASE BreakpointFound
    <2>1. CASE pc' = "done"
      BY <2>1 DEF FrozenUntilContinue
    <2>2. CASE Goto("emit") /\ wire' = Append(wire, Hit) /\ UNCHANGED inferior
      <3>1. wire' = <<Hit>> /\ Hit.kind # "var_bytes"
        BY <1>3, <2>2 DEF BreakpointFound, SilentOK, Hit
      <3>2. \A k \in DOMAIN wire' : wire'[k].kind # "var_bytes"
        BY <3>1
      <3> QED
        BY <1>3, <2>2, <3>2 DEF BreakpointFound, AtBreakpoint, FrozenUntilContinue
    <2> QED
      BY <1>3, <2>1, <2>2 DEF BreakpointFound
  <1>4. CASE EmitVariable
    <2>1. \/ pc' = "done"
          \/ wire' = wire \o <<Bytes(next), Layout(next)>> /\ UNCHANGED <<pc, inferior>>
      BY <1>4 DEF EmitVariable, Absent, Refuse
    <2>2. CASE pc' = "done"
      BY <2>2 DEF FrozenUntilContinue
    <2>3. CASE wire' = wire \o <<Bytes(next), Layout(next)>> /\ UNCHANGED <<pc, inferior>>
      <3>1. program = "stopped" /\ atBreak /\ ValuesAreOf(wire, memory)
        BY <1>4 DEF EmitVariable, FrozenUntilContinue, ValuesAreOf
      <3>2. ValuesAreOf(wire', memory)
        BY <2>3, <3>1, PairOfNow
      <3> QED
        BY <2>3, <3>1, <3>2 DEF FrozenUntilContinue, ValuesAreOf
    <2> QED
      BY <2>1, <2>2, <2>3
  <1>5. CASE AllEmitted
    BY <1>5 DEF AllEmitted, FrozenUntilContinue
  <1>6. CASE AwaitContinue
    <2>1. pc = "await" /\ UNCHANGED wire
      BY <1>6 DEF AwaitContinue
    <2>2. pc' = "exitwait" \/ UNCHANGED inferior
      BY <1>6 DEF AwaitContinue
    <2> QED
      BY <1>6, <2>1, <2>2 DEF AwaitContinue, FrozenUntilContinue
  <1>7. CASE Environment
    BY <1>7 DEF Environment, Stops, Ends, Tick, Sends, Closes, FrozenUntilContinue
  <1> QED
    BY <1>1, <1>2, <1>3, <1>4, <1>5, <1>6, <1>7 DEF Next, AdapterStep

--------------------------------------------------------------------------------
LEMMA InvInit == Init => IInv
  <1> SUFFICES ASSUME Init PROVE IInv
    OBVIOUS
  <1>1. wanted \in Seq(Kinds) /\ Len(wanted) \in Nat
    BY DEF Init
  <1>2. TypeOK
    <2>1. next \in 1 .. Len(wanted) + 1 /\ memory \in 0 .. MaxRuns /\ sent \in 0 .. MaxInput
      BY <1>1 DEF Init
    <2>2. wire \in Seq(Records) /\ input \in Seq({"continue", "other", "eof"})
      BY DEF Init
    <2> QED
      BY <2>1, <2>2 DEF Init, TypeOK, ExitCodes
  <1>3. WireOK
    BY DEF Init, WireOK, SilentOK, EmitOK, AfterLoopOK, CompleteOnSuccess
  <1> QED
    BY <1>2, <1>3 DEF Init, IInv, UnlaunchedOK, FrozenUntilContinue, NoProgramLeftBehind, Alive

LEMMA InvNext == IInv /\ [Next]_vars => IInv'
  BY TypeStep, WireStep, ProgramStep, FrozenStep DEF IInv, WireOK

LEMMA Invariant == Spec => []IInv
  BY InvInit, InvNext, PTL DEF Spec

(* Every variable of the adapter, the program and the CLI stays in its type. *)
THEOREM TypeCorrect == Spec => []TypeOK
  <1>1. IInv => TypeOK
    BY DEF IInv
  <1> QED
    BY <1>1, Invariant, PTL

(* For every list of requested variables: what the CLI reads is the hit and then *)
(* whole pairs in the order it asked for them, on every way main() returns, and  *)
(* exit code 0 comes with all of them (adapter.cpp main(), the loop over vars).  *)
THEOREM WholePairsInOrder == Spec => []CompleteOnSuccess
  <1>1. IInv => CompleteOnSuccess
    BY DEF IInv, WireOK
  <1> QED
    BY <1>1, Invariant, PTL

(* However often the program stopped before, and whatever the clock and the CLI  *)
(* do: from the hit to the continue it stands at the breakpoint, and every value *)
(* sent is of the memory it has there.                                           *)
THEOREM OneInstant == Spec => []FrozenUntilContinue
  <1>1. IInv => FrozenUntilContinue
    BY DEF IInv
  <1> QED
    BY <1>1, Invariant, PTL

(* Whatever main() returns, by whichever of its paths, the program is gone. *)
THEOREM NothingLeftBehind == Spec => []NoProgramLeftBehind
  <1>1. IInv => NoProgramLeftBehind
    BY DEF IInv
  <1> QED
    BY <1>1, Invariant, PTL
--------------------------------------------------------------------------------
(* The functions without state: what they return is defined by recursion, and    *)
(* what holds of every value follows by induction over the positions of a        *)
(* sequence.  Induction is the well-foundedness of finite sets, and a recursion  *)
(* is given by the function that is its step, so that both are facts about sets. *)
HIDE RequestsType
HIDE BoundAssumption

(* Induction up to n, with the numbers for which it holds as a set T. *)
LEMMA UpTo_n ==
    ASSUME NEW n \in Nat, NEW T, 0 \in T, \A k \in 0 .. n - 1 : k \in T => k + 1 \in T
    PROVE  \A k \in 0 .. n : k \in T
  <1> DEFINE Bad == {0 .. k : k \in {k \in 0 .. n : k \notin T}}
  <1> SUFFICES ASSUME NEW m \in 0 .. n, m \notin T PROVE FALSE
    OBVIOUS
  <1>1. Bad \subseteq FiniteSubsetsOf(Nat)
    <2>1. ASSUME NEW k \in 0 .. n PROVE 0 .. k \in FiniteSubsetsOf(Nat)
      <3>1. IsFiniteSet(0 .. k)
        <4>1. k \in Int /\ 0 \in Int
          OBVIOUS
        <4> QED
          BY <4>1, FS_Interval
      <3>2. 0 .. k \in SUBSET Nat
        OBVIOUS
      <3> QED
        BY <3>1, <3>2 DEF FiniteSubsetsOf
    <2> QED
      BY <2>1
  <1>2. Bad # {}
    OBVIOUS
  <1>3. IsWellFoundedOn(StrictSubsetOrdering(Nat), FiniteSubsetsOf(Nat))
    BY FS_StrictSubsetOrderingWellFounded
  <1>4. PICK x \in Bad : \A y \in Bad : <<y, x>> \notin StrictSubsetOrdering(Nat)
    <2> HIDE DEF Bad
    <2> QED
      BY <1>1, <1>2, <1>3, WFMin
  <1>5. PICK k \in 0 .. n : k \notin T /\ x = 0 .. k
    BY <1>4
  <1>6. k - 1 \in 0 .. n /\ k - 1 \notin T
    BY <1>5
  <1>7. 0 .. k - 1 \in Bad
    BY <1>6
  <1>8. 0 .. k - 1 \subseteq 0 .. k /\ k \in 0 .. k /\ k \notin 0 .. k - 1
    BY <1>5
  <1>9. <<0 .. k - 1, x>> \in StrictSubsetOrdering(Nat)
    BY <1>5, <1>8 DEF StrictSubsetOrdering
  <1> QED
    BY <1>4, <1>7, <1>9

(* The functions that solve a recursion from b whose step is h.                  *)
Steps(n, V) == [(1 .. n) \X V -> V]
Solutions(n, V, b, h) == {f \in [0 .. n -> V] : f[0] = b /\ \A k \in 1 .. n : f[k] = h[<<k, f[k - 1]>>]}

(* A recursion whose step is a function h from values to values has a solution. *)
LEMMA Recursion ==
    ASSUME NEW n \in Nat, NEW V, NEW b \in V, NEW h \in Steps(n, V)
    PROVE  Solutions(n, V, b, h) # {}
  <1> DEFINE Solves(f, m) == f[0] = b /\ \A k \in 1 .. m : f[k] = h[<<k, f[k - 1]>>]
             T == {m \in 0 .. n : \E f \in [0 .. m -> V] : Solves(f, m)}
  <1>1. 0 \in T
    <2> DEFINE g == [k \in 0 .. 0 |-> b]
    <2>1. g \in [0 .. 0 -> V] /\ Solves(g, 0)
      OBVIOUS
    <2> HIDE DEF g, Solves
    <2> QED
      BY <2>1
  <1>2. ASSUME NEW m \in 0 .. n - 1, m \in T PROVE m + 1 \in T
    <2>1. PICK f \in [0 .. m -> V] : Solves(f, m)
      BY <1>2
    <2> DEFINE g == [k \in 0 .. m + 1 |-> IF k = m + 1 THEN h[<<m + 1, f[m]>>] ELSE f[k]]
    <2>2. f[m] \in V /\ <<m + 1, f[m]>> \in (1 .. n) \X V
      OBVIOUS
    <2>3. h[<<m + 1, f[m]>>] \in V
      BY <2>2 DEF Steps
    <2>4. g \in [0 .. m + 1 -> V]
      BY <2>3
    <2>5. g[0] = b /\ g[m + 1] = h[<<m + 1, f[m]>>] /\ \A k \in 0 .. m : g[k] = f[k]
      BY <2>1
    <2> HIDE DEF g
    <2>6. ASSUME NEW k \in 1 .. m + 1 PROVE g[k] = h[<<k, g[k - 1]>>]
      <3>1. CASE k = m + 1
        <4>1. g[k - 1] = f[m]
          BY <2>5, <3>1
        <4> QED
          BY <2>5, <3>1, <4>1
      <3>2. CASE k \in 1 .. m
        <4>1. g[k] = f[k] /\ g[k - 1] = f[k - 1]
          BY <2>5, <3>2
        <4> QED
          BY <2>1, <3>2, <4>1
      <3> QED
        BY <3>1, <3>2
    <2>7. Solves(g, m + 1)
      BY <2>5, <2>6
    <2>8. m + 1 \in 0 .. n
      OBVIOUS
    <2> HIDE DEF Solves
    <2> QED
      BY <2>4, <2>7, <2>8
  <1> HIDE DEF T
  <1>3. n \in T
    BY <1>1, <1>2, UpTo_n
  <1> QED
    BY <1>3 DEF T, Solutions

--------------------------------------------------------------------------------
(* The layout of arrays and structs.                                             *)
(* Products only grow by a factor. *)
LEMMA TimesMonotone ==
    ASSUME NEW a \in Nat, NEW b \in Nat, NEW q \in Nat, a <= b
    PROVE  a * q <= b * q /\ a * q \in Nat /\ b * q \in Nat
  OBVIOUS

(* The ratio of two byte sizes recovers the bound between them.                  *)
LEMMA QuotientOfProduct ==
    ASSUME NEW a \in Nat, NEW q \in Nat, q # 0
    PROVE  (a * q) \div q = a
  OBVIOUS

LEMMA ProductAssociates ==
    ASSUME NEW a \in Nat, NEW b \in Nat, NEW c \in Nat
    PROVE  (a * b) * c = a * (b * c)
  OBVIOUS

LEMMA TimesSuccessor ==
    ASSUME NEW a \in Nat, NEW q \in Nat
    PROVE  (a + 1) * q = a * q + q /\ a * q \in Nat
  OBVIOUS

LEMMA SumsBelow ==
    ASSUME NEW a \in Nat, NEW b \in Nat, NEW p \in Nat, NEW q \in Nat, NEW r \in Nat, NEW w \in Nat,
           a + w <= b, p + b <= q
    PROVE  (p + a) + w <= q + r
  OBVIOUS

LEMMA SumsMove ==
    ASSUME NEW a \in Nat, NEW p \in Nat, NEW r \in Nat, NEW w \in Nat, a + w <= r
    PROVE  (p + a) + w <= p + r
  OBVIOUS

(* Sums and products of naturals, each in a lemma of its own for the provers.    *)
LEMMA TimesPlusType ==
    ASSUME NEW a \in Nat, NEW b \in Nat, NEW c \in Nat
    PROVE  a * b + c \in Nat
  <1>1. a * b \in Nat
    OBVIOUS
  <1> QED
    BY <1>1

(* The running product obeys the equation that defines it.                       *)
LEMMA RunningProductIs ==
    ASSUME NEW s \in Seq(Nat), NEW unit \in Nat
    PROVE  RunningProduct(s, unit) =
             [k \in 0 .. Len(s) |-> IF k = 0 THEN unit ELSE s[Len(s) + 1 - k] * RunningProduct(s, unit)[k - 1]]
  <1> DEFINE n == Len(s)
             h == [p \in (1 .. n) \X Nat |-> s[n + 1 - p[1]] * p[2]]
  <1>1. n \in Nat /\ \A k \in 1 .. n : s[n + 1 - k] \in Nat
    OBVIOUS
  <1> HIDE DEF n
  <1>2. h \in Steps(n, Nat)
    BY <1>1 DEF Steps
  <1>3. \A k \in 1 .. n, v \in Nat : h[<<k, v>>] = s[n + 1 - k] * v
    OBVIOUS
  <1> HIDE DEF h
  <1>4. PICK f \in [0 .. n -> Nat] : f[0] = unit /\ \A k \in 1 .. n : f[k] = h[<<k, f[k - 1]>>]
    <2>1. Solutions(n, Nat, unit, h) # {}
      BY <1>1, <1>2, Recursion
    <2> QED
      BY <2>1 DEF Solutions
  <1>5. ASSUME NEW k \in 1 .. n PROVE f[k] = s[n + 1 - k] * f[k - 1]
    <2>1. f[k - 1] \in Nat /\ f[k] = h[<<k, f[k - 1]>>]
      BY <1>1, <1>4
    <2> QED
      BY <1>3, <2>1
  <1>6. f = [k \in 0 .. n |-> IF k = 0 THEN unit ELSE s[n + 1 - k] * f[k - 1]]
    <2>1. \A k \in 0 .. n : f[k] = IF k = 0 THEN unit ELSE s[n + 1 - k] * f[k - 1]
      BY <1>1, <1>4, <1>5
    <2> QED
      BY <2>1
  <1> QED
    BY <1>6 DEF RunningProduct, n

(* ... and is a natural number over any number of dimensions.                    *)
LEMMA RunningProductType ==
    ASSUME NEW s \in Seq(Nat), NEW unit \in Nat
    PROVE  /\ RunningProduct(s, unit) \in [0 .. Len(s) -> Nat]
           /\ RunningProduct(s, unit)[0] = unit
           /\ \A k \in 1 .. Len(s) :
                RunningProduct(s, unit)[k] = s[Len(s) + 1 - k] * RunningProduct(s, unit)[k - 1]
  <1> DEFINE n == Len(s)
             A == RunningProduct(s, unit)
             T == {k \in 0 .. n : A[k] \in Nat}
  <1>1. n \in Nat /\ DOMAIN s = 1 .. n /\ \A k \in 1 .. n : s[k] \in Nat
    OBVIOUS
  <1>2. A = [k \in 0 .. n |-> IF k = 0 THEN unit ELSE s[n + 1 - k] * A[k - 1]]
    BY RunningProductIs
  <1> HIDE DEF A, n
  <1>3. DOMAIN A = 0 .. n /\ A[0] = unit /\ \A k \in 1 .. n : A[k] = s[n + 1 - k] * A[k - 1]
    BY <1>1, <1>2
  <1>4. 0 \in T
    BY <1>1, <1>3
  <1>5. ASSUME NEW k \in 0 .. n - 1, k \in T PROVE k + 1 \in T
    <2>1. A[k] \in Nat /\ k + 1 \in 1 .. n /\ n - k \in 1 .. n
      BY <1>1, <1>5
    <2>2. A[k + 1] = s[n - k] * A[k]
      BY <1>1, <1>3, <2>1
    <2>3. s[n - k] \in Nat
      BY <1>1, <2>1
    <2>4. A[k + 1] \in Nat
      BY <2>1, <2>2, <2>3
    <2> QED
      BY <1>1, <2>1, <2>4
  <1> HIDE DEF T
  <1>6. \A k \in 0 .. n : k \in T
    BY <1>1, <1>4, <1>5, UpTo_n
  <1>7. \A k \in 0 .. n : A[k] \in Nat
    BY <1>6 DEF T
  <1>8. A \in [0 .. n -> Nat]
    <2>1. A = [k \in 0 .. n |-> A[k]]
      BY <1>2, <1>3
    <2> QED
      BY <1>7, <2>1
  <1> QED
    BY <1>3, <1>8 DEF A, n

(* The same of the offset that the innermost dimensions contribute.              *)
LEMMA InnerOffsetIs ==
    ASSUME NEW n \in Nat, NEW strides \in [1 .. n -> Nat], NEW x \in [1 .. n -> Nat], Len(strides) = n
    PROVE  InnerOffset(x, strides) =
             [k \in 0 .. n |-> IF k = 0 THEN 0 ELSE x[n + 1 - k] * strides[n + 1 - k] + InnerOffset(x, strides)[k - 1]]
  <1> DEFINE h == [p \in (1 .. n) \X Nat |-> x[n + 1 - p[1]] * strides[n + 1 - p[1]] + p[2]]
  <1>1. \A k \in 1 .. n : x[n + 1 - k] \in Nat /\ strides[n + 1 - k] \in Nat
    OBVIOUS
  <1>2. h \in Steps(n, Nat)
    <2>1. ASSUME NEW k \in 1 .. n, NEW v \in Nat
          PROVE  x[n + 1 - k] * strides[n + 1 - k] + v \in Nat
      <3>1. x[n + 1 - k] * strides[n + 1 - k] \in Nat
        BY <1>1
      <3> QED
        BY <3>1
    <2> QED
      BY <2>1 DEF Steps
  <1>3. \A k \in 1 .. n, v \in Nat : h[<<k, v>>] = x[n + 1 - k] * strides[n + 1 - k] + v
    OBVIOUS
  <1> HIDE DEF h
  <1>4. PICK f \in [0 .. n -> Nat] : f[0] = 0 /\ \A k \in 1 .. n : f[k] = h[<<k, f[k - 1]>>]
    <2>1. Solutions(n, Nat, 0, h) # {}
      BY <1>2, Recursion
    <2> QED
      BY <2>1 DEF Solutions
  <1>5. ASSUME NEW k \in 1 .. n PROVE f[k] = x[n + 1 - k] * strides[n + 1 - k] + f[k - 1]
    <2>1. f[k - 1] \in Nat /\ f[k] = h[<<k, f[k - 1]>>]
      BY <1>4
    <2> QED
      BY <1>3, <2>1
  <1>6. f = [k \in 0 .. n |-> IF k = 0 THEN 0 ELSE x[n + 1 - k] * strides[n + 1 - k] + f[k - 1]]
    <2>1. \A k \in 0 .. n : f[k] = IF k = 0 THEN 0 ELSE x[n + 1 - k] * strides[n + 1 - k] + f[k - 1]
      BY <1>4, <1>5
    <2> QED
      BY <2>1
  <1> QED
    BY <1>6 DEF InnerOffset

LEMMA InnerOffsetType ==
    ASSUME NEW n \in Nat, NEW strides \in [1 .. n -> Nat], NEW x \in [1 .. n -> Nat], Len(strides) = n
    PROVE  /\ InnerOffset(x, strides) \in [0 .. n -> Nat]
           /\ InnerOffset(x, strides)[0] = 0
           /\ \A k \in 1 .. n : InnerOffset(x, strides)[k] = x[n + 1 - k] * strides[n + 1 - k] + InnerOffset(x, strides)[k - 1]
  <1> DEFINE S == InnerOffset(x, strides)
             T == {k \in 0 .. n : S[k] \in Nat}
  <1>1. S = [k \in 0 .. n |-> IF k = 0 THEN 0 ELSE x[n + 1 - k] * strides[n + 1 - k] + S[k - 1]]
    BY InnerOffsetIs
  <1> HIDE DEF S
  <1>2. DOMAIN S = 0 .. n /\ S[0] = 0 /\ \A k \in 1 .. n : S[k] = x[n + 1 - k] * strides[n + 1 - k] + S[k - 1]
    BY <1>1
  <1>3. 0 \in T
    BY <1>2
  <1>4. ASSUME NEW k \in 0 .. n - 1, k \in T PROVE k + 1 \in T
    <2>1. S[k] \in Nat /\ k + 1 \in 1 .. n /\ n - k \in 1 .. n
      BY <1>4
    <2>2. S[k + 1] = x[n - k] * strides[n - k] + S[k]
      BY <1>2, <2>1
    <2>3. x[n - k] \in Nat /\ strides[n - k] \in Nat
      BY <2>1
    <2>4. x[n - k] * strides[n - k] + S[k] \in Nat
      BY <2>1, <2>3, TimesPlusType
    <2>5. S[k + 1] \in Nat
      BY <2>2, <2>4
    <2> QED
      BY <2>1, <2>5
  <1> HIDE DEF T
  <1>5. \A k \in 0 .. n : k \in T
    BY <1>3, <1>4, UpTo_n
  <1>6. \A k \in 0 .. n : S[k] \in Nat
    BY <1>5 DEF T
  <1>7. S \in [0 .. n -> Nat]
    <2>1. S = [k \in 0 .. n |-> S[k]]
      BY <1>1, <1>2
    <2> QED
      BY <1>6, <2>1
  <1> QED
    BY <1>2, <1>7 DEF S
(* The size of an array is its number of elements times the size of its leaf.    *)
LEMMA ProductScales ==
    ASSUME NEW s \in Seq(Nat), NEW unit \in Nat
    PROVE  \A k \in 0 .. Len(s) : RunningProduct(s, 1)[k] * unit = RunningProduct(s, unit)[k]
  <1> DEFINE n == Len(s)
             A == RunningProduct(s, unit)
             B == RunningProduct(s, 1)
             T == {k \in 0 .. n : B[k] * unit = A[k]}
  <1>1. n \in Nat /\ \A k \in 1 .. n : s[k] \in Nat
    OBVIOUS
  <1>2. /\ A \in [0 .. n -> Nat] /\ A[0] = unit
        /\ \A k \in 1 .. n : A[k] = s[n + 1 - k] * A[k - 1]
    BY RunningProductType
  <1>3. /\ B \in [0 .. n -> Nat] /\ B[0] = 1
        /\ \A k \in 1 .. n : B[k] = s[n + 1 - k] * B[k - 1]
    <2>1. 1 \in Nat
      OBVIOUS
    <2> QED
      BY <2>1, RunningProductType
  <1> HIDE DEF A, B, n
  <1>4. 0 \in T
    BY <1>1, <1>2, <1>3
  <1>5. ASSUME NEW k \in 0 .. n - 1, k \in T PROVE k + 1 \in T
    <2>1. k + 1 \in 1 .. n /\ n - k \in 1 .. n /\ k \in 0 .. n /\ k + 1 \in 0 .. n
      BY <1>1
    <2>2. A[k + 1] = s[n - k] * A[k] /\ B[k + 1] = s[n - k] * B[k]
      <3>1. n + 1 - (k + 1) = n - k /\ (k + 1) - 1 = k
        BY <1>1
      <3>2. A[k + 1] = s[n - k] * A[k]
        BY <1>2, <2>1, <3>1
      <3>3. B[k + 1] = s[n - k] * B[k]
        BY <1>3, <2>1, <3>1
      <3> QED
        BY <3>2, <3>3
    <2>3. s[n - k] \in Nat /\ A[k] \in Nat /\ B[k] \in Nat /\ B[k] * unit = A[k]
      BY <1>1, <1>2, <1>3, <1>5, <2>1
    <2>4. (s[n - k] * B[k]) * unit = s[n - k] * (B[k] * unit)
      BY <2>3, ProductAssociates
    <2>5. B[k + 1] * unit = A[k + 1]
      BY <2>2, <2>3, <2>4, Zenon
    <2> QED
      BY <2>1, <2>5
  <1> HIDE DEF T
  <1>6. \A k \in 0 .. n : k \in T
    BY <1>1, <1>4, <1>5, UpTo_n
  <1> QED
    BY <1>6 DEF T, A, B, n

(* A set of positions that is not empty has a first one.                         *)
LEMMA FirstExists ==
    ASSUME NEW n \in Nat, NEW S, S \subseteq 1 .. n, S # {}
    PROVE  \E i \in S : \A j \in S : i <= j
  <1> DEFINE T == {k \in 0 .. n : \A j \in S : j > k}
  <1> SUFFICES ASSUME \A i \in S : \E j \in S : j < i PROVE FALSE
    OBVIOUS
  <1>1. 0 \in T
    OBVIOUS
  <1>2. ASSUME NEW k \in 0 .. n - 1, k \in T PROVE k + 1 \in T
    <2>1. k + 1 \notin S
      BY <1>2
    <2> QED
      BY <1>2, <2>1
  <1> HIDE DEF T
  <1>3. n \in T
    BY <1>1, <1>2, UpTo_n
  <1>4. \A j \in S : j > n
    BY <1>3 DEF T
  <1>5. \A j \in S : j \in 1 .. n
    OBVIOUS
  <1>6. PICK i \in S : TRUE
    OBVIOUS
  <1> QED
    BY <1>4, <1>5, <1>6

(* An array that is accepted is described with the bounds that it declares: the  *)
(* walk over the element sizes did not meet a size of 0.                         *)
LEMMA ShapeIsDeclared ==
    ASSUME NEW dims \in Seq(Nat), NEW leaf \in Nat,
           unwrapArrayShape(dims, leaf).rest = <<>>, leaf # 0
    PROVE  /\ unwrapArrayShape(dims, leaf).shape = dims
           /\ \A k \in 0 .. Len(dims) - 1 : RunningProduct(dims, leaf)[k] # 0
  <1> DEFINE n == Len(dims)
             A == RunningProduct(dims, leaf)
             stops == {i \in DOMAIN dims : A[n - i] = 0}
             last == IF stops = {} THEN n ELSE CHOOSE i \in stops : \A j \in stops : i <= j
             u == unwrapArrayShape(dims, leaf)
  <1>1. /\ n \in Nat /\ DOMAIN dims = 1 .. n /\ \A k \in 1 .. n : dims[k] \in Nat
        /\ dims = [i \in 1 .. n |-> dims[i]]
    OBVIOUS
  <1>2. /\ A \in [0 .. n -> Nat] /\ A[0] = leaf
        /\ \A k \in 1 .. n : A[k] = dims[n + 1 - k] * A[k - 1]
    BY RunningProductType
  <1>3. /\ u.rest = Below(dims, last)
        /\ u.shape = [i \in 1 .. last |-> IF i \in stops THEN 0 ELSE A[n - (i - 1)] \div A[n - i]]
    BY DEF unwrapArrayShape
  <1> HIDE DEF A, u
  <1>4. stops = {}
    <2> SUFFICES ASSUME stops # {} PROVE FALSE
      OBVIOUS
    <2>1. stops \subseteq 1 .. n
      OBVIOUS
    <2>2. \E i \in stops : \A j \in stops : i <= j
      <3> HIDE DEF stops
      <3> QED
        BY <1>1, <2>1, FirstExists
    <2>3. last \in stops
      <3> HIDE DEF stops
      <3> QED
        BY <2>2
    <2> HIDE DEF last
    <2>4. last \in 1 .. n /\ A[n - last] = 0
      BY <2>3
    <2>5. last # n
      BY <1>1, <1>2, <2>4
    <2>6. Len(Below(dims, last)) = n - last
      <3>1. last + 1 \in Int /\ last + 1 >= 1 /\ last + 1 <= n
        BY <1>1, <2>4, <2>5
      <3> QED
        BY <1>1, <2>4, <3>1 DEF Below
    <2>7. n - last # 0
      BY <1>1, <2>4, <2>5
    <2>8. u.rest = <<>>
      BY DEF u
    <2>9. Len(<<>>) = 0
      OBVIOUS
    <2> QED
      BY <1>3, <2>6, <2>7, <2>8, <2>9
  <1>5. \A i \in 1 .. n : A[n - i] # 0
    BY <1>1, <1>4
  <1>6. u.shape = [i \in 1 .. n |-> A[n - (i - 1)] \div A[n - i]]
    BY <1>1, <1>3, <1>4
  <1> HIDE DEF stops, n
  <1>7. ASSUME NEW i \in 1 .. n PROVE A[n - (i - 1)] \div A[n - i] = dims[i]
    <2>1. n - (i - 1) \in 1 .. n /\ n + 1 - (n - (i - 1)) = i /\ (n - (i - 1)) - 1 = n - i /\ n - i \in 0 .. n
      BY <1>1
    <2>2. A[n - (i - 1)] = dims[i] * A[n - i]
      BY <1>2, <2>1
    <2>3. dims[i] \in Nat /\ A[n - i] \in Nat /\ A[n - i] # 0
      BY <1>1, <1>2, <1>5, <2>1
    <2> QED
      BY <2>2, <2>3, QuotientOfProduct
  <1>8. u.shape = dims
    BY <1>1, <1>6, <1>7
  <1>9. ASSUME NEW k \in 0 .. n - 1 PROVE A[k] # 0
    <2>1. n - k \in 1 .. n /\ n - (n - k) = k
      BY <1>1
    <2> QED
      BY <1>5, <2>1
  <1> QED
    BY <1>8, <1>9 DEF u, A, n

(* A position within the declared bounds: what C allows as indices.              *)
Within(x, dims) == x \in [1 .. Len(dims) -> Nat] /\ \A d \in 1 .. Len(dims) : x[d] < dims[d]

(* Over any number of innermost dimensions, an element ends before the block of  *)
(* memory does that these dimensions take.                                       *)
LEMMA ElementsStayWithin ==
    ASSUME NEW dims \in Seq(Nat), NEW leaf \in Nat, NEW x, Within(x, dims),
           NEW strides \in [1 .. Len(dims) -> Nat], Len(strides) = Len(dims),
           \A i \in 1 .. Len(dims) : strides[i] = RunningProduct(dims, leaf)[Len(dims) - i]
    PROVE  \A k \in 0 .. Len(dims) :
              InnerOffset(x, strides)[k] + leaf <= RunningProduct(dims, leaf)[k]
  <1> DEFINE n == Len(dims)
             A == RunningProduct(dims, leaf)
             S == InnerOffset(x, strides)
             T == {k \in 0 .. n : S[k] + leaf <= A[k]}
  <1>1. /\ n \in Nat /\ x \in [1 .. n -> Nat] /\ strides \in [1 .. n -> Nat] /\ Len(strides) = n
        /\ \A k \in 1 .. n : dims[k] \in Nat /\ x[k] < dims[k] /\ strides[k] = A[n - k]
    BY DEF Within
  <1>2. /\ A \in [0 .. n -> Nat] /\ A[0] = leaf
        /\ \A k \in 1 .. n : A[k] = dims[n + 1 - k] * A[k - 1]
    BY RunningProductType
  <1>3. /\ S \in [0 .. n -> Nat] /\ S[0] = 0
        /\ \A k \in 1 .. n : S[k] = x[n + 1 - k] * strides[n + 1 - k] + S[k - 1]
    <2> HIDE DEF n
    <2> QED
      BY <1>1, InnerOffsetType
  <1> HIDE DEF A, S, n
  <1>4. 0 \in T
    BY <1>1, <1>2, <1>3
  <1>5. ASSUME NEW k \in 0 .. n - 1, k \in T PROVE k + 1 \in T
    <2>1. k + 1 \in 1 .. n /\ n - k \in 1 .. n /\ n - (n - k) = k /\ n + 1 - (k + 1) = n - k
          /\ (k + 1) - 1 = k /\ k \in 0 .. n /\ k + 1 \in 0 .. n
      BY <1>1
    <2>2. strides[n - k] = A[k]
      BY <1>1, <2>1
    <2>3. S[k + 1] = x[n - k] * A[k] + S[k]
      BY <1>3, <2>1, <2>2
    <2>4. A[k + 1] = dims[n - k] * A[k]
      BY <1>2, <2>1
    <2>5. x[n - k] \in Nat /\ dims[n - k] \in Nat /\ x[n - k] + 1 <= dims[n - k]
      BY <1>1, <2>1
    <2>6. A[k] \in Nat /\ S[k] \in Nat /\ S[k] + leaf <= A[k]
      BY <1>2, <1>3, <1>5, <2>1
    <2>7. /\ (x[n - k] + 1) * A[k] <= dims[n - k] * A[k]
          /\ dims[n - k] * A[k] \in Nat
      <3>1. x[n - k] + 1 \in Nat
        BY <2>5
      <3> QED
        BY <2>5, <2>6, <3>1, TimesMonotone
    <2>8. (x[n - k] + 1) * A[k] = x[n - k] * A[k] + A[k] /\ x[n - k] * A[k] \in Nat
      BY <2>5, <2>6, TimesSuccessor
    <2>9. S[k + 1] + leaf <= A[k + 1]
      <3> DEFINE p == x[n - k] * A[k]
                 q == dims[n - k] * A[k]
      <3>1. p \in Nat /\ q \in Nat /\ p + A[k] <= q /\ S[k + 1] = p + S[k] /\ A[k + 1] = q
        BY <2>3, <2>4, <2>7, <2>8, Zenon
      <3> HIDE DEF p, q
      <3>2. (p + S[k]) + leaf <= q + 0
        BY <2>6, <3>1, SumsBelow
      <3> QED
        BY <3>1, <3>2
    <2> QED
      BY <2>1, <2>9
  <1> HIDE DEF T
  <1>6. \A k \in 0 .. n : k \in T
    BY <1>1, <1>4, <1>5, UpTo_n
  <1> QED
    BY <1>6 DEF T, A, S, n

(* Where two elements first differ, the earlier one ends before the block of the *)
(* later one begins; dimensions further out move both by the same.               *)
LEMMA ElementsAreOrdered ==
    ASSUME NEW dims \in Seq(Nat), NEW leaf \in Nat,
           NEW x, NEW y, Within(x, dims), Within(y, dims), Precedes(x, y),
           NEW strides \in [1 .. Len(dims) -> Nat], Len(strides) = Len(dims),
           \A i \in 1 .. Len(dims) : strides[i] = RunningProduct(dims, leaf)[Len(dims) - i]
    PROVE  Offset(x, strides) + leaf <= Offset(y, strides)
  <1> DEFINE n == Len(dims)
             A == RunningProduct(dims, leaf)
             S == InnerOffset(x, strides)
             R == InnerOffset(y, strides)
  <1>1. /\ n \in Nat /\ strides \in [1 .. n -> Nat] /\ Len(strides) = n
        /\ x \in [1 .. n -> Nat] /\ y \in [1 .. n -> Nat]
        /\ \A k \in 1 .. n : strides[k] = A[n - k]
    BY DEF Within
  <1>2. A \in [0 .. n -> Nat]
    BY RunningProductType
  <1>3. /\ S \in [0 .. n -> Nat]
        /\ \A k \in 1 .. n : S[k] = x[n + 1 - k] * strides[n + 1 - k] + S[k - 1]
    <2> HIDE DEF n
    <2> QED
      BY <1>1, InnerOffsetType
  <1>4. /\ R \in [0 .. n -> Nat]
        /\ \A k \in 1 .. n : R[k] = y[n + 1 - k] * strides[n + 1 - k] + R[k - 1]
    <2> HIDE DEF n
    <2> QED
      BY <1>1, InnerOffsetType
  <1>5. \A k \in 0 .. n : S[k] + leaf <= A[k]
    BY ElementsStayWithin
  <1>6. Offset(x, strides) = S[n] /\ Offset(y, strides) = R[n]
    BY DEF Offset
  <1>7. PICK d \in 1 .. n : x[d] < y[d] /\ \A e \in 1 .. d - 1 : x[e] = y[e]
    BY <1>1 DEF Precedes
  <1> HIDE DEF A, S, R, n
  <1> DEFINE T == {k \in 0 .. n : k >= n + 1 - d => S[k] + leaf <= R[k]}
  <1>8. 0 \in T
    BY <1>1
  <1>9. ASSUME NEW k \in 0 .. n - 1, k \in T PROVE k + 1 \in T
    <2>1. k + 1 \in 1 .. n /\ n - k \in 1 .. n /\ n - (n - k) = k /\ n + 1 - (k + 1) = n - k
          /\ (k + 1) - 1 = k /\ k \in 0 .. n /\ k + 1 \in 0 .. n
      BY <1>1
    <2>2. strides[n - k] = A[k]
      BY <1>1, <2>1
    <2>3. S[k + 1] = x[n - k] * A[k] + S[k] /\ R[k + 1] = y[n - k] * A[k] + R[k]
      BY <1>3, <1>4, <2>1, <2>2
    <2>4. x[n - k] \in Nat /\ y[n - k] \in Nat /\ A[k] \in Nat /\ S[k] \in Nat /\ R[k] \in Nat
      BY <1>1, <1>2, <1>3, <1>4, <2>1
    <2> DEFINE p == x[n - k] * A[k]
               q == y[n - k] * A[k]
    <2>5. p \in Nat /\ q \in Nat /\ S[k + 1] = p + S[k] /\ R[k + 1] = q + R[k]
      <3>1. p \in Nat
        BY <2>4, TimesSuccessor
      <3>2. q \in Nat
        BY <2>4, TimesSuccessor
      <3> QED
        BY <2>3, <3>1, <3>2
    <2>6. CASE d = n - k
      <3>1. x[n - k] + 1 <= y[n - k]
        BY <1>7, <2>4, <2>6
      <3>2. p + A[k] <= q
        <4>1. (x[n - k] + 1) * A[k] <= y[n - k] * A[k]
          <5>1. x[n - k] + 1 \in Nat
            BY <2>4
          <5> QED
            BY <2>4, <3>1, <5>1, TimesMonotone
        <4>2. (x[n - k] + 1) * A[k] = p + A[k]
          BY <2>4, TimesSuccessor
        <4> QED
          BY <4>1, <4>2
      <3>3. S[k] + leaf <= A[k]
        BY <1>5, <2>1
      <3> HIDE DEF p, q
      <3>4. (p + S[k]) + leaf <= q + R[k]
        BY <2>4, <2>5, <3>2, <3>3, SumsBelow
      <3>5. S[k + 1] + leaf <= R[k + 1]
        BY <2>5, <3>4
      <3> QED
        BY <2>1, <3>5
    <2>7. CASE d > n - k
      <3>1. x[n - k] = y[n - k]
        BY <1>1, <1>7, <2>1, <2>7
      <3>2. p = q
        BY <3>1
      <3>3. S[k] + leaf <= R[k]
        BY <1>1, <1>9, <2>1, <2>7
      <3> HIDE DEF p, q
      <3>4. (p + S[k]) + leaf <= p + R[k]
        BY <2>4, <2>5, <3>3, SumsMove
      <3>5. S[k + 1] + leaf <= R[k + 1]
        BY <2>5, <3>2, <3>4
      <3> QED
        BY <2>1, <3>5
    <2>8. CASE d < n - k
      BY <1>1, <2>1, <2>8
    <2> QED
      BY <1>1, <2>6, <2>7, <2>8
  <1> HIDE DEF T
  <1>10. \A k \in 0 .. n : k \in T
    BY <1>1, <1>8, <1>9, UpTo_n
  <1>11. S[n] + leaf <= R[n]
    BY <1>1, <1>10 DEF T
  <1> QED
    BY <1>6, <1>11

(* A list of at most n entries is a sequence.                                    *)
LEMMA UpToIsSeq ==
    ASSUME NEW S, NEW V, S \subseteq V, NEW n \in Nat, NEW s \in UpTo(S, n)
    PROVE  s \in Seq(V) /\ Len(s) \in Nat /\ s \in [1 .. Len(s) -> S]
  <1>1. PICK k \in 0 .. n : s \in [1 .. k -> S]
    BY DEF UpTo
  <1>2. s \in [1 .. k -> V] /\ k \in Nat
    BY <1>1
  <1> QED
    BY <1>1, <1>2

LEMMA ArrayType ==
    ASSUME NEW t \in ArrayTypes
    PROVE  t.dims \in Seq(Nat) /\ t.leaf \in Nat /\ Len(t.dims) \in Nat /\ t.dims \in [1 .. Len(t.dims) -> Nat]
  <1>1. t.dims \in UpTo(Dims, MaxDims) /\ t.leaf \in LeafSizes
    BY DEF ArrayTypes
  <1>2. t.dims \in Seq(Nat) /\ Len(t.dims) \in Nat /\ t.dims \in [1 .. Len(t.dims) -> Dims]
    <2>1. Dims \subseteq Nat /\ MaxDims \in Nat
      BY SizeAssumption
    <2> QED
      BY <1>1, <2>1, UpToIsSeq
  <1>3. t.leaf \in Nat
    BY <1>1, SizeAssumption
  <1>4. t.dims \in [1 .. Len(t.dims) -> Nat]
    BY <1>2, SizeAssumption
  <1> QED
    BY <1>2, <1>3, <1>4

(* What the answer to a request about an array says of each of its elements.     *)
LEMMA AcceptedArray ==
    ASSUME NEW t \in ArrayTypes, DescribeArray(t) # None
    PROVE  /\ DescribeArray(t).shape = t.dims
           /\ DescribeArray(t).strides = rowMajorStrides(t.dims, t.leaf)
           /\ DescribeArray(t).bytes = RunningProduct(t.dims, t.leaf)[Len(t.dims)]
  <1>1. t.dims \in Seq(Nat) /\ t.leaf \in Nat
    BY ArrayType
  <1>2. unwrapArrayShape(t.dims, t.leaf).rest = <<>> /\ t.leaf # 0
    BY DEF DescribeArray
  <1>3. unwrapArrayShape(t.dims, t.leaf).shape = t.dims
    BY <1>1, <1>2, ShapeIsDeclared
  <1> QED
    BY <1>2, <1>3 DEF DescribeArray

(* The layout of an accepted array, put together.                                *)
LEMMA ArrayFits ==
    ASSUME NEW t \in ArrayTypes, DescribeArray(t) # None
    PROVE  LET a == DescribeArray(t)
           IN  /\ a.shape = t.dims /\ Elements(a.shape) * t.leaf = a.bytes
               /\ \A x \in Indices(a.shape) : Offset(x, a.strides) + t.leaf <= a.bytes
               /\ \A x, y \in Indices(a.shape) :
                    Precedes(x, y) => Offset(x, a.strides) + t.leaf <= Offset(y, a.strides)
  <1> DEFINE dims == t.dims
             leaf == t.leaf
             n == Len(dims)
             strides == rowMajorStrides(dims, leaf)
  <1>1. dims \in Seq(Nat) /\ leaf \in Nat /\ n \in Nat /\ dims \in [1 .. n -> Nat] /\ DOMAIN dims = 1 .. n
    <2>1. /\ t.dims \in Seq(Nat) /\ t.leaf \in Nat
          /\ Len(t.dims) \in Nat /\ t.dims \in [1 .. Len(t.dims) -> Nat]
      BY ArrayType
    <2> QED
      BY <2>1
  <1>2. /\ DescribeArray(t).shape = dims /\ DescribeArray(t).strides = strides
        /\ DescribeArray(t).bytes = RunningProduct(dims, leaf)[n]
    BY AcceptedArray
  <1> HIDE DEF dims, leaf
  <1>3. /\ strides \in [1 .. n -> Nat] /\ Len(strides) = n
        /\ \A i \in 1 .. n : strides[i] = RunningProduct(dims, leaf)[n - i]
    <2>1. RunningProduct(dims, leaf) \in [0 .. n -> Nat]
      BY <1>1, RunningProductType
    <2>2. strides = [i \in 1 .. n |-> RunningProduct(dims, leaf)[n - i]]
      BY <1>1 DEF rowMajorStrides
    <2>3. \A i \in 1 .. n : n - i \in 0 .. n
      BY <1>1
    <2> HIDE DEF strides, n
    <2>4. strides \in [1 .. n -> Nat]
      BY <2>1, <2>2, <2>3
    <2>5. Len(strides) = n
      BY <1>1, <2>2
    <2> QED
      BY <2>2, <2>4, <2>5
  <1>4. \A x \in Indices(dims) : Within(x, dims)
    <2>1. \A m \in Dims : 0 .. m - 1 \subseteq Nat
      BY SizeAssumption
    <2>2. UNION {0 .. m - 1 : m \in Dims} \subseteq Nat
      BY <2>1
    <2> QED
      BY <1>1, <2>2 DEF Indices, Within
  <1> HIDE DEF strides
  <1>5. Elements(dims) * leaf = RunningProduct(dims, leaf)[n]
    <2>1. n \in 0 .. n
      BY <1>1
    <2> QED
      BY <1>1, <2>1, ProductScales DEF Elements
  <1>6. ASSUME NEW x \in Indices(dims) PROVE Offset(x, strides) + leaf <= RunningProduct(dims, leaf)[n]
    <2>1. n \in 0 .. n /\ Within(x, dims)
      BY <1>1, <1>4
    <2> QED
      BY <1>1, <1>3, <2>1, ElementsStayWithin DEF Offset
  <1>7. ASSUME NEW x \in Indices(dims), NEW y \in Indices(dims), Precedes(x, y)
        PROVE  Offset(x, strides) + leaf <= Offset(y, strides)
    BY <1>1, <1>3, <1>4, <1>7, ElementsAreOrdered
  <1> QED
    BY <1>2, <1>5, <1>6, <1>7 DEF dims, leaf

(* Each member is compared with the one before it only; offsets and sizes are    *)
(* not negative, so it lies behind all the others as well.                       *)
LEMMA FieldsFollow ==
    ASSUME NEW members \in StructTypes, tryBuildStructBlock(members) # None
    PROVE  LET s == tryBuildStructBlock(members)
           IN  \A i, j \in DOMAIN s : i < j => s[i].offset + s[i].size <= s[j].offset
  <1> DEFINE n == Len(members)
             s == tryBuildStructBlock(members)
  <1>1. members \in [1 .. n -> Members] /\ n \in Nat /\ DOMAIN members = 1 .. n
    <2>1. members \in UpTo(Members, MaxFields) /\ MaxFields \in Nat
      BY SizeAssumption DEF StructTypes
    <2>2. n \in Nat /\ members \in [1 .. n -> Members]
      BY <2>1, UpToIsSeq
    <2> QED
      BY <2>2
  <1>2. /\ \A i \in 1 .. n : ~Overlays(members, i)
        /\ s = [i \in 1 .. n |-> [offset |-> members[i].offset, size |-> members[i].size]]
    BY <1>1 DEF tryBuildStructBlock
  <1>3. \A i \in 1 .. n : members[i].offset \in Nat /\ members[i].size \in Nat
    BY <1>1, SizeAssumption DEF Members
  <1>4. \A i \in 2 .. n : members[i - 1].offset + members[i - 1].size <= members[i].offset
    BY <1>1, <1>2, <1>3 DEF Overlays
  <1> HIDE DEF n, s
  <1>5. ASSUME NEW i \in 1 .. n, NEW j \in 1 .. n, i < j
        PROVE  members[i].offset + members[i].size <= members[j].offset
    <2> DEFINE T == {k \in 0 .. n : k > i => members[i].offset + members[i].size <= members[k].offset}
    <2>1. 0 \in T
      BY <1>1
    <2>2. ASSUME NEW k \in 0 .. n - 1, k \in T PROVE k + 1 \in T
      <3>1. CASE k < i
        BY <1>1, <3>1
      <3>2. CASE k = i
        BY <1>1, <1>4, <3>2
      <3>3. CASE k > i
        <4>1. members[i].offset + members[i].size <= members[k].offset
          BY <2>2, <3>3
        <4>2. members[k].offset + members[k].size <= members[k + 1].offset
          BY <1>1, <1>4, <3>3
        <4>3. k \in 1 .. n /\ k + 1 \in 1 .. n
          BY <1>1, <3>3
        <4>4. members[i].offset + members[i].size <= members[k + 1].offset
          BY <1>3, <4>1, <4>2, <4>3
        <4> QED
          BY <4>3, <4>4
      <3> QED
        BY <1>1, <3>1, <3>2, <3>3
    <2> HIDE DEF T
    <2>3. \A k \in 0 .. n : k \in T
      BY <1>1, <2>1, <2>2, UpTo_n
    <2> QED
      BY <1>1, <1>5, <2>3 DEF T
  <1> QED
    BY <1>2, <1>5 DEF s

(* What a run of the layout functions keeps: a request that may be asked, and no *)
(* answer but its own.                                                           *)
LayoutAnswered ==
    request \in LayoutRequests /\ (reply = <<>> \/ reply = LayoutAnswer(request))

(* The CLI can index every array that is described, and finds the fields of      *)
(* every struct that is described apart.                                         *)
THEOREM LayoutFits == LayoutSpec => []DescriptorFitsPayload
  <1>1. request \in LayoutRequests /\ reply = <<>> => LayoutAnswered
    BY DEF LayoutAnswered
  <1>2. LayoutAnswered /\ [Lay]_<<request, reply>> => LayoutAnswered'
    BY DEF LayoutAnswered, Lay, Answer, LayoutAnswer
  <1>3. LayoutAnswered => LayoutAddressesPayload
    <2> SUFFICES ASSUME LayoutAnswered, Accepted("array") PROVE LayoutAddressesPayload
      BY DEF LayoutAddressesPayload
    <2>1. reply # <<>> /\ request.kind = "array" /\ reply[1] # None
      BY DEF Accepted, Answered
    <2>2. reply = <<DescribeArray(request.type)>> /\ request.type \in ArrayTypes
      BY <2>1 DEF LayoutAnswered, LayoutAnswer, LayoutRequests, ArrayRequests, StructRequests
    <2> QED
      BY <2>1, <2>2, ArrayFits DEF LayoutAddressesPayload
  <1>4. LayoutAnswered => FieldsAreDisjoint
    <2> SUFFICES ASSUME LayoutAnswered, Accepted("struct") PROVE FieldsAreDisjoint
      BY DEF FieldsAreDisjoint
    <2>1. reply # <<>> /\ request.kind = "struct" /\ reply[1] # None
      BY DEF Accepted, Answered
    <2>2. reply = <<tryBuildStructBlock(request.members)>> /\ request.members \in StructTypes
      BY <2>1 DEF LayoutAnswered, LayoutAnswer, LayoutRequests, ArrayRequests, StructRequests
    <2> QED
      BY <2>1, <2>2, FieldsFollow DEF FieldsAreDisjoint
  <1> QED
    BY <1>1, <1>2, <1>3, <1>4, PTL DEF LayoutSpec, DescriptorFitsPayload

--------------------------------------------------------------------------------
(* The names of the build, in this module because they rest on the same          *)
(* induction.                                                                    *)
LEMMA TextType ==
    ASSUME NEW W, NEW s \in TextsOf(W)
    PROVE  s \in Seq(W) /\ Len(s) \in Nat /\ s \in [1 .. Len(s) -> W]
  <1>1. PICK n \in 1 .. MaxLength : s \in [1 .. n -> W]
    BY DEF TextsOf
  <1>2. n \in Nat
    BY LengthAssumption
  <1> QED
    BY <1>1, <1>2

(* How a token is written: behind a dollar if Ninja would read it as something   *)
(* else.                                                                         *)
Escaped(t) == IF t \in Special THEN <<Dollar, t>> ELSE <<t>>

LEMMA EscapedType ==
    ASSUME NEW W, Special \subseteq W, NEW t \in W
    PROVE  Escaped(t) \in Seq(W)
  <1>1. Dollar \in W
    BY DEF Special
  <1>2. <<Dollar, t>> \in Seq(W)
    BY <1>1
  <1>3. <<t>> \in Seq(W)
    OBVIOUS
  <1> QED
    BY <1>2, <1>3 DEF Escaped

(* ninjaEscape() appends the tokens one by one: r[k] is what it wrote for the    *)
(* first k of them.                                                              *)
Writes(W, text, r) ==
    /\ r \in [0 .. Len(text) -> Seq(W)] /\ r[0] = <<>>
    /\ \A k \in 1 .. Len(text) : r[k] = r[k - 1] \o Escaped(text[k])

(* ninjaEscape() returns what was written after the last token.                  *)
LEMMA EscapeIs ==
    ASSUME NEW W, Special \subseteq W, NEW text \in Seq(W)
    PROVE  \E r : Writes(W, text, r) /\ ninjaEscape(text) = r[Len(text)]
  <1> DEFINE n == Len(text)
             V == Seq(W)
             Body(r) == [i \in 0 .. n |->
                           IF i = 0 THEN <<>>
                           ELSE r[i - 1] \o (IF text[i] \in Special THEN <<Dollar, text[i]>> ELSE <<text[i]>>)]
             h == [p \in (1 .. n) \X V |-> p[2] \o Escaped(text[p[1]])]
  <1>1. n \in Nat /\ <<>> \in V /\ \A k \in 1 .. n : text[k] \in W
    OBVIOUS
  <1>2. \A k \in 1 .. n : Escaped(text[k]) \in V
    BY <1>1, EscapedType
  <1> HIDE DEF n
  <1>3. h \in Steps(n, V)
    <2>1. \A k \in 1 .. n, v \in V : v \o Escaped(text[k]) \in V
      BY <1>2
    <2> HIDE DEF V
    <2> QED
      BY <2>1 DEF Steps
  <1>4. \A k \in 1 .. n, v \in V : h[<<k, v>>] = v \o Escaped(text[k])
    OBVIOUS
  <1> HIDE DEF h, V
  <1>5. PICK f \in [0 .. n -> V] : f[0] = <<>> /\ \A k \in 1 .. n : f[k] = h[<<k, f[k - 1]>>]
    <2>1. Solutions(n, V, <<>>, h) # {}
      BY <1>1, <1>3, Recursion
    <2> QED
      BY <2>1 DEF Solutions
  <1>6. ASSUME NEW k \in 1 .. n PROVE f[k] = f[k - 1] \o Escaped(text[k])
    <2>1. f[k - 1] \in V /\ f[k] = h[<<k, f[k - 1]>>]
      BY <1>1, <1>5
    <2> QED
      BY <1>4, <2>1
  <1>7. f = Body(f)
    <2>1. ASSUME NEW k \in 0 .. n
          PROVE  f[k] = IF k = 0 THEN <<>> ELSE f[k - 1] \o Escaped(text[k])
      <3>1. CASE k = 0
        BY <1>5, <3>1
      <3>2. CASE k # 0
        <4>1. k \in 1 .. n
          BY <1>1, <3>2
        <4>2. f[k] = f[k - 1] \o Escaped(text[k])
          BY <1>6, <4>1
        <4> QED
          BY <3>2, <4>2, Zenon
      <3> QED
        BY <3>1, <3>2
    <2> QED
      BY <2>1 DEF Escaped
  <1> DEFINE r == CHOOSE r : r = Body(r)
  <1>8. r = Body(r)
    <2> HIDE DEF Body
    <2> QED
      BY <1>7
  <1>9. ninjaEscape(text) = r[n]
    BY DEF ninjaEscape, n
  <1> HIDE DEF r
  <1>10. /\ DOMAIN r = 0 .. n /\ r[0] = <<>>
         /\ \A k \in 1 .. n : r[k] = r[k - 1] \o Escaped(text[k])
    <2>1. DOMAIN r = 0 .. n /\ \A k \in 0 .. n : r[k] = Body(r)[k]
      BY <1>8
    <2>2. r[0] = <<>>
      BY <1>1, <2>1
    <2>3. ASSUME NEW k \in 1 .. n PROVE r[k] = r[k - 1] \o Escaped(text[k])
      <3>1. k \in 0 .. n /\ k # 0
        BY <1>1
      <3> QED
        BY <2>1, <3>1 DEF Escaped
    <2> QED
      BY <2>1, <2>2, <2>3
  <1> DEFINE T == {k \in 0 .. n : r[k] \in V}
  <1>11. \A k \in 0 .. n : k \in T
    <2>1. 0 \in T
      BY <1>1, <1>10
    <2>2. ASSUME NEW k \in 0 .. n - 1, k \in T PROVE k + 1 \in T
      <3>1. k + 1 \in 1 .. n /\ k + 1 \in 0 .. n /\ (k + 1) - 1 = k /\ r[k] \in V
        BY <1>1, <2>2
      <3>2. r[k + 1] = r[k] \o Escaped(text[k + 1]) /\ Escaped(text[k + 1]) \in V
        BY <1>2, <1>10, <3>1
      <3>3. r[k + 1] \in V
        BY <3>1, <3>2 DEF V
      <3> QED
        BY <3>1, <3>3
    <2> HIDE DEF T
    <2> QED
      BY <1>1, <2>1, <2>2, UpTo_n
  <1>12. r \in [0 .. n -> V]
    <2>1. r = [k \in 0 .. n |-> r[k]]
      BY <1>8, <1>10
    <2> QED
      BY <1>11, <2>1
  <1>13. Writes(W, text, r)
    BY <1>10, <1>12 DEF Writes, V, n
  <1> QED
    BY <1>9, <1>13 DEF n

(* What Ninja makes of one more token, before the end of the path.               *)
Holding(out, escape) == [out |-> out, escape |-> escape, ended |-> FALSE]

LEMMA Taken ==
    ASSUME NEW out, NEW t
    PROVE  /\ NinjaTakes(Holding(out, FALSE), Dollar) = Holding(out, TRUE)
           /\ t \in Special => NinjaTakes(Holding(out, TRUE), t) = Holding(Append(out, t), FALSE)
           /\ t \notin Special \cup {Bar} => NinjaTakes(Holding(out, FALSE), t) = Holding(Append(out, t), FALSE)
  BY DEF NinjaTakes, Holding, Special, PathEnds, Dollar, Space, Colon, Bar

(* Nor does it leave the type of its state.                                      *)
LEMMA TakenType ==
    ASSUME NEW W, NEW t \in W, NEW v \in [out : Seq(W), escape : BOOLEAN, ended : BOOLEAN]
    PROVE  NinjaTakes(v, t) \in [out : Seq(W), escape : BOOLEAN, ended : BOOLEAN]
  <1>1. Append(v.out, t) \in Seq(W)
    OBVIOUS
  <1> QED
    BY <1>1 DEF NinjaTakes

(* Ninja reads a text token by token: d[k] is what it holds behind the first k.  *)
Reads(text, d) ==
    /\ d[0] = NothingTaken
    /\ \A k \in 1 .. Len(text) : d[k] = NinjaTakes(d[k - 1], text[k])

(* NinjaReads() returns what is held after the last token.                       *)
LEMMA ReadIs ==
    ASSUME NEW W, NEW text \in Seq(W)
    PROVE  \E d : Reads(text, d) /\ NinjaReads(text) = d[Len(text)].out
  <1> DEFINE n == Len(text)
             V == [out : Seq(W), escape : BOOLEAN, ended : BOOLEAN]
             Body(d) == [i \in 0 .. n |-> IF i = 0 THEN NothingTaken ELSE NinjaTakes(d[i - 1], text[i])]
             h == [p \in (1 .. n) \X V |-> NinjaTakes(p[2], text[p[1]])]
  <1>1. n \in Nat /\ NothingTaken \in V /\ \A k \in 1 .. n : text[k] \in W
    BY DEF NothingTaken
  <1> HIDE DEF n
  <1>2. \A k \in 1 .. n, v \in V : NinjaTakes(v, text[k]) \in V
    BY <1>1, TakenType
  <1>3. h \in Steps(n, V)
    <2> HIDE DEF V
    <2> QED
      BY <1>2 DEF Steps
  <1>4. \A k \in 1 .. n, v \in V : h[<<k, v>>] = NinjaTakes(v, text[k])
    <2> HIDE DEF V
    <2> QED
      OBVIOUS
  <1> HIDE DEF h, V
  <1>5. PICK f \in [0 .. n -> V] : f[0] = NothingTaken /\ \A k \in 1 .. n : f[k] = h[<<k, f[k - 1]>>]
    <2>1. Solutions(n, V, NothingTaken, h) # {}
      BY <1>1, <1>3, Recursion
    <2> QED
      BY <2>1 DEF Solutions
  <1>6. ASSUME NEW k \in 1 .. n PROVE f[k] = NinjaTakes(f[k - 1], text[k])
    <2>1. f[k - 1] \in V /\ f[k] = h[<<k, f[k - 1]>>]
      BY <1>1, <1>5
    <2> QED
      BY <1>4, <2>1
  <1>7. f = Body(f)
    <2>1. \A k \in 0 .. n : f[k] = IF k = 0 THEN NothingTaken ELSE NinjaTakes(f[k - 1], text[k])
      BY <1>1, <1>5, <1>6
    <2> QED
      BY <2>1
  <1> DEFINE d == CHOOSE d : d = Body(d)
  <1>8. d = Body(d)
    <2> HIDE DEF Body
    <2> QED
      BY <1>7
  <1>9. NinjaReads(text) = d[n].out
    BY DEF NinjaReads, n
  <1> HIDE DEF d
  <1>10. \A k \in 0 .. n : d[k] = Body(d)[k]
    BY <1>8
  <1>11. Reads(text, d)
    <2>1. 0 \in 0 .. n /\ \A k \in 1 .. n : k \in 0 .. n /\ k # 0
      BY <1>1
    <2> QED
      BY <1>10, <2>1 DEF Reads, n
  <1> QED
    BY <1>9, <1>11 DEF n

(* t starts with s. *)
Begins(s, t) == Len(s) <= Len(t) /\ \A j \in 1 .. Len(s) : t[j] = s[j]

LEMMA BeginsTransitive ==
    ASSUME NEW W, NEW s \in Seq(W), NEW t \in Seq(W), NEW u \in Seq(W), Begins(s, t), Begins(t, u)
    PROVE  Begins(s, u)
  <1>1. Len(s) \in Nat /\ Len(t) \in Nat /\ Len(u) \in Nat
    OBVIOUS
  <1>2. Len(s) <= Len(t) /\ Len(t) <= Len(u)
    BY DEF Begins
  <1>3. \A j \in 1 .. Len(s) : j \in 1 .. Len(t)
    BY <1>1, <1>2
  <1> QED
    BY <1>1, <1>2, <1>3 DEF Begins

LEMMA ConcatKeeps ==
    ASSUME NEW W, NEW s \in Seq(W), NEW e \in Seq(W)
    PROVE  Begins(s, s \o e)
  <1>1. Len(s) \in Nat /\ Len(e) \in Nat /\ Len(s \o e) = Len(s) + Len(e)
    BY ConcatProperties
  <1>2. \A j \in 1 .. Len(s) : (s \o e)[j] = s[j]
    BY ConcatProperties
  <1> QED
    BY <1>1, <1>2 DEF Begins

(* Two paths of one name have one length: nothing but the extension was cut.     *)
LEMMA LengthsAgree ==
    ASSUME NEW a \in Nat, NEW b \in Nat, a >= 3, b >= 3, 1 .. a - 2 = 1 .. b - 2
    PROVE  a = b
  <1>1. a - 2 \in 1 .. a - 2 /\ b - 2 \in 1 .. b - 2
    OBVIOUS
  <1>2. a - 2 \in 1 .. b - 2 /\ b - 2 \in 1 .. a - 2
    BY <1>1
  <1> QED
    BY <1>2

(* A position of a path is in the name, the last dot or the extension.           *)
LEMMA Position ==
    ASSUME NEW n \in Nat, n >= 3, NEW i \in 1 .. n
    PROVE  i \in 1 .. n - 2 \/ i = n - 1 \/ i = n
  OBVIOUS

(* What was written for the first tokens stays in front.                         *)
LEMMA WrittenStays ==
    ASSUME NEW W, NEW text \in Seq(W), Special \subseteq W,
           NEW r, Writes(W, text, r), NEW i \in 0 .. Len(text)
    PROVE  \A k \in i .. Len(text) : Begins(r[i], r[k])
  <1> DEFINE n == Len(text)
             Kept(k) == Begins(r[i], r[k])
             T == {k \in 0 .. n : k >= i => Kept(k)}
  <1>1. n \in Nat /\ i \in 0 .. n /\ \A k \in 1 .. n : text[k] \in W
    OBVIOUS
  <1>2. \A k \in 0 .. n : r[k] \in Seq(W)
    BY DEF Writes
  <1>3. \A k \in 1 .. n : r[k] = r[k - 1] \o Escaped(text[k])
    BY DEF Writes
  <1> HIDE DEF n
  <1>4. Kept(i)
    <2>1. r[i] \in Seq(W)
      BY <1>1, <1>2
    <2>2. Len(r[i]) \in Nat
      BY <2>1
    <2> QED
      BY <2>2 DEF Begins
  <1> HIDE DEF Kept
  <1>5. 0 \in T
    <2>1. 0 >= i => i = 0
      BY <1>1
    <2> QED
      BY <1>1, <1>4, <2>1
  <1>6. ASSUME NEW k \in 0 .. n - 1, k \in T PROVE k + 1 \in T
    <2>1. k + 1 \in 0 .. n /\ k + 1 \in 1 .. n /\ (k + 1) - 1 = k /\ k \in 0 .. n
      BY <1>1
    <2>2. CASE k + 1 <= i
      <3>1. k + 1 >= i => k + 1 = i
        BY <1>1, <2>2
      <3> QED
        BY <1>4, <2>1, <3>1
    <2>3. CASE k + 1 > i
      <3>1. Begins(r[i], r[k])
        BY <1>1, <1>6, <2>3 DEF Kept
      <3>2. r[k + 1] = r[k] \o Escaped(text[k + 1]) /\ Escaped(text[k + 1]) \in Seq(W)
        BY <1>1, <1>3, <2>1, EscapedType
      <3>3. r[i] \in Seq(W) /\ r[k] \in Seq(W) /\ r[k + 1] \in Seq(W)
        BY <1>1, <1>2, <2>1
      <3>4. Begins(r[k], r[k + 1])
        <4>1. Begins(r[k], r[k] \o Escaped(text[k + 1]))
          BY <3>2, <3>3, ConcatKeeps
        <4> QED
          BY <3>2, <4>1
      <3>5. Kept(k + 1)
        BY <3>1, <3>3, <3>4, BeginsTransitive DEF Kept
      <3> QED
        BY <2>1, <3>5
    <2> QED
      BY <1>1, <2>2, <2>3
  <1> HIDE DEF T
  <1>7. \A k \in 0 .. n : k \in T
    BY <1>1, <1>5, <1>6, UpTo_n
  <1>8. \A k \in i .. n : k \in 0 .. n /\ k >= i
    BY <1>1
  <1>9. \A k \in i .. n : Kept(k)
    BY <1>7, <1>8 DEF T
  <1> QED
    BY <1>9 DEF Kept, n

(* Behind what was written for the first k tokens, Ninja has read these tokens   *)
(* and expects no character to be escaped.                                       *)
LEMMA ReadBack_k ==
    ASSUME NEW W, NEW text \in Seq(W), Special \subseteq W,
           \A k \in 1 .. Len(text) : text[k] # Bar,
           NEW r, Writes(W, text, r),
           NEW d, Reads(r[Len(text)], d)
    PROVE  d[Len(r[Len(text)])] = Holding(text, FALSE)
  <1> DEFINE n == Len(text)
             whole == r[n]
             Read(k) == d[Len(r[k])] = Holding(SubSeq(text, 1, k), FALSE)
             T == {k \in 0 .. n : Read(k)}
  <1>1. n \in Nat /\ \A k \in 1 .. n : text[k] \in W /\ text[k] # Bar
    OBVIOUS
  <1>2. /\ \A k \in 0 .. n : r[k] \in Seq(W) /\ Len(r[k]) \in Nat
        /\ whole \in Seq(W) /\ Len(whole) \in Nat
    <2>1. r \in [0 .. n -> Seq(W)] /\ n \in 0 .. n
      BY <1>1 DEF Writes
    <2> HIDE DEF n
    <2>2. \A k \in 0 .. n : r[k] \in Seq(W)
      BY <2>1
    <2>3. \A s \in Seq(W) : Len(s) \in Nat
      OBVIOUS
    <2> QED
      BY <2>1, <2>2, <2>3
  <1>3. r[0] = <<>> /\ \A k \in 1 .. n : r[k] = r[k - 1] \o Escaped(text[k])
    BY DEF Writes
  <1>4. /\ d[0] = Holding(<<>>, FALSE)
        /\ \A k \in 1 .. Len(whole) : d[k] = NinjaTakes(d[k - 1], whole[k])
    BY DEF Reads, NothingTaken, Holding
  <1>5. \A k \in 0 .. n : Begins(r[k], whole)
    <2>1. \A k \in 0 .. n : \A m \in k .. n : Begins(r[k], r[m])
      BY WrittenStays
    <2>2. \A k \in 0 .. n : n \in k .. n
      BY <1>1
    <2> HIDE DEF n
    <2> QED
      BY <2>1, <2>2
  <1>6. Read(0)
    <2>1. Len(r[0]) = 0 /\ SubSeq(text, 1, 0) = <<>>
      BY <1>3
    <2> QED
      BY <1>4, <2>1
  <1> HIDE DEF whole, n
  <1>7. ASSUME NEW k \in 0 .. n - 1, Read(k) PROVE Read(k + 1)
    <2> DEFINE L == Len(r[k])
               t == text[k + 1]
    <2>1. k + 1 \in 0 .. n /\ k + 1 \in 1 .. n /\ (k + 1) - 1 = k /\ k \in 0 .. n
      BY <1>1
    <2>2. t \in W /\ t # Bar /\ r[k] \in Seq(W) /\ L \in Nat
      BY <1>1, <1>2, <2>1
    <2>3. r[k + 1] = r[k] \o Escaped(t)
      BY <1>3, <2>1
    <2>4. d[L] = Holding(SubSeq(text, 1, k), FALSE)
      BY <1>7
    <2>5. SubSeq(text, 1, k + 1) = Append(SubSeq(text, 1, k), t)
      BY <1>1, <2>1 DEF n
    <2>6. Len(r[k + 1]) <= Len(whole) /\ \A j \in 1 .. Len(r[k + 1]) : whole[j] = r[k + 1][j]
      BY <1>5, <2>1 DEF Begins
    <2>7. CASE t \in Special
      <3>1. r[k + 1] = r[k] \o <<Dollar, t>>
        BY <2>3, <2>7 DEF Escaped
      <3>2. Len(r[k + 1]) = L + 2 /\ r[k + 1][L + 1] = Dollar /\ r[k + 1][L + 2] = t
        <4>1. Dollar \in W
          BY DEF Special
        <4>2. <<Dollar, t>> \in Seq(W) /\ Len(<<Dollar, t>>) = 2 /\ <<Dollar, t>>[1] = Dollar /\ <<Dollar, t>>[2] = t
          BY <2>2, <4>1
        <4> QED
          BY <2>2, <3>1, <4>2, ConcatProperties
      <3>3. L + 1 \in 1 .. Len(whole) /\ L + 2 \in 1 .. Len(whole) /\ whole[L + 1] = Dollar /\ whole[L + 2] = t
        <4>1. L + 1 \in 1 .. L + 2 /\ L + 2 \in 1 .. L + 2
          BY <2>2
        <4>2. whole[L + 1] = Dollar /\ whole[L + 2] = t
          BY <2>6, <3>2, <4>1
        <4>3. L + 2 <= Len(whole)
          BY <2>6, <3>2
        <4> HIDE DEF L
        <4> QED
          BY <1>2, <2>2, <4>2, <4>3
      <3> HIDE DEF L, t
      <3>4. (L + 1) - 1 = L /\ (L + 2) - 1 = L + 1
        BY <2>2
      <3>5. d[L + 1] = Holding(SubSeq(text, 1, k), TRUE)
        <4>1. d[L + 1] = NinjaTakes(Holding(SubSeq(text, 1, k), FALSE), Dollar)
          BY <1>4, <2>4, <3>3, <3>4
        <4> QED
          BY <4>1, Taken
      <3>6. d[L + 2] = NinjaTakes(Holding(SubSeq(text, 1, k), TRUE), t)
        BY <1>4, <3>3, <3>4, <3>5
      <3>7. d[L + 2] = Holding(Append(SubSeq(text, 1, k), t), FALSE)
        BY <2>7, <3>6, Taken DEF t
      <3> QED
        BY <2>5, <3>2, <3>7
    <2>8. CASE t \notin Special
      <3>1. r[k + 1] = r[k] \o <<t>>
        BY <2>3, <2>8 DEF Escaped
      <3>2. Len(r[k + 1]) = L + 1 /\ r[k + 1][L + 1] = t
        BY <2>2, <3>1
      <3>3. L + 1 \in 1 .. Len(whole) /\ whole[L + 1] = t
        BY <1>2, <2>2, <2>6, <3>2
      <3> HIDE DEF L, t
      <3>4. (L + 1) - 1 = L
        BY <2>2
      <3>5. d[L + 1] = NinjaTakes(Holding(SubSeq(text, 1, k), FALSE), t)
        BY <1>4, <2>4, <3>3, <3>4
      <3>6. d[L + 1] = Holding(Append(SubSeq(text, 1, k), t), FALSE)
        BY <2>2, <2>8, <3>5, Taken DEF t
      <3> QED
        BY <2>5, <3>2, <3>6
    <2> QED
      BY <2>7, <2>8
  <1> HIDE DEF Read
  <1>8. 0 \in T /\ \A k \in 0 .. n - 1 : k \in T => k + 1 \in T
    BY <1>1, <1>6, <1>7
  <1> HIDE DEF T
  <1>9. n \in T
    <2>1. \A k \in 0 .. n : k \in T
      BY <1>1, <1>8, UpTo_n
    <2> QED
      BY <1>1, <2>1
  <1>10. Read(n)
    BY <1>9 DEF T
  <1>11. SubSeq(text, 1, n) = text
    BY DEF n
  <1> QED
    BY <1>10, <1>11 DEF Read, n

(* Ninja reads back what ninjaEscape() was given, unless a bar is in it.         *)
LEMMA ReadsBack ==
    ASSUME NEW text \in TextsOf(Words \cup Special \cup {Bar}), Bar \notin Range(text)
    PROVE  NinjaReads(ninjaEscape(text)) = text
  <1> DEFINE W == Words \cup Special \cup {Bar}
  <1>1. text \in Seq(W) /\ Len(text) \in Nat /\ Special \subseteq W
    BY TextType
  <1>2. \A k \in 1 .. Len(text) : text[k] # Bar
    BY <1>1 DEF Range
  <1> HIDE DEF W
  <1>3. PICK r : Writes(W, text, r) /\ ninjaEscape(text) = r[Len(text)]
    BY <1>1, EscapeIs
  <1>4. r[Len(text)] \in Seq(W)
    BY <1>1, <1>3 DEF Writes
  <1>5. PICK d : Reads(r[Len(text)], d) /\ NinjaReads(r[Len(text)]) = d[Len(r[Len(text)])].out
    BY <1>4, ReadIs
  <1>6. d[Len(r[Len(text)])] = Holding(text, FALSE)
    BY <1>1, <1>2, <1>3, <1>5, ReadBack_k
  <1> QED
    BY <1>3, <1>5, <1>6 DEF Holding

--------------------------------------------------------------------------------
(* A path alternates words and separators, and ends in a dot and a word.         *)
LEMMA PathType ==
    ASSUME NEW p \in Paths
    PROVE  /\ p \in Seq(Words \cup Separators) /\ Len(p) \in Nat /\ Len(p) >= 3 /\ Len(p) % 2 = 1
           /\ DOMAIN p = 1 .. Len(p) /\ p = [i \in 1 .. Len(p) |-> p[i]]
           /\ \A i \in 1 .. Len(p) : i % 2 = 1 => p[i] \in Words
           /\ p[Len(p) - 1] = "." /\ p[Len(p)] # "."
  <1> DEFINE n == Len(p)
             W == Words \cup Separators
  <1>1. /\ n \in Nat /\ n >= 3 /\ p \in Seq(W) /\ p \in [1 .. n -> W] /\ p[n - 1] = "."
        /\ \A i \in 1 .. n : p[i] \in Words <=> i % 2 = 1
    <2>1. p \in TextsOf(W)
      BY DEF Paths
    <2>2. p \in Seq(W) /\ n \in Nat /\ p \in [1 .. n -> W]
      BY <2>1, TextType
    <2> QED
      BY <2>2 DEF Paths
  <1> HIDE DEF n
  <1>2. "." \notin Words
    BY WordAssumption DEF Separators
  <1>3. n - 1 \in 1 .. n /\ n \in 1 .. n
    BY <1>1
  <1>4. (n - 1) % 2 # 1
    BY <1>1, <1>2, <1>3
  <1>5. n % 2 = 1
    BY <1>1, <1>4
  <1>6. p[n] # "."
    BY <1>1, <1>2, <1>3, <1>5
  <1> QED
    BY <1>1, <1>5, <1>6 DEF n

(* A sequence is the function of its positions.                                  *)
LEMMA SequenceIs ==
    ASSUME NEW W, NEW s \in Seq(W)
    PROVE  DOMAIN s = 1 .. Len(s) /\ s = [i \in 1 .. Len(s) |-> s[i]]
  OBVIOUS

(* A name that ends in a dot and an extension without one.                       *)
Named(q) ==
    /\ Len(q) \in Nat /\ Len(q) >= 3 /\ q \in Seq(Words \cup Separators \cup {Up})
    /\ q[Len(q) - 1] = "." /\ q[Len(q)] # "."

(* What is cut off is this dot and the extension.                                *)
LEMMA CutIs ==
    ASSUME NEW q, Named(q)
    PROVE  /\ DOMAIN Cut(q) = 1 .. Len(q) - 2
           /\ \A i \in 1 .. Len(q) - 2 : Cut(q)[i] = q[i]
  <1> DEFINE n == Len(q)
             I == {i \in 1 .. n : q[i] = "."}
  <1>1. n \in Nat /\ n >= 3 /\ q \in Seq(Words \cup Separators \cup {Up}) /\ q[n - 1] = "." /\ q[n] # "."
    BY DEF Named
  <1> HIDE DEF n
  <1>2. n - 1 \in I /\ \A i \in I : i <= n - 1
    <2>1. \A i \in I : i # n /\ i \in 1 .. n
      BY <1>1
    <2> QED
      BY <1>1, <2>1
  <1>3. SelectLastInSeq(q, LAMBDA t : t = ".") = n - 1
    <2>1. I = {i \in 1 .. Len(q) : q[i] = "."}
      BY DEF n
    <2>2. I \subseteq Int
      OBVIOUS
    <2>3. Max(I) = n - 1
      <3> HIDE DEF I
      <3>1. ASSUME NEW m \in I, \A i \in I : m >= i PROVE m = n - 1
        <4>1. m <= n - 1 /\ m >= n - 1 /\ m \in Int /\ n \in Nat
          BY <1>1, <1>2, <2>2, <3>1
        <4> QED
          BY <4>1
      <3> QED
        BY <1>2, <3>1 DEF Max
    <2> QED
      BY <1>2, <2>1, <2>3 DEF SelectLastInSeq
  <1>4. Cut(q) = SubSeq(q, 1, n - 2)
    BY <1>1, <1>3 DEF Cut
  <1> QED
    BY <1>1, <1>4 DEF n

(* Two names of one extension without an underscore or a backslash can be told   *)
(* from what is left when they are cut and their slashes are replaced.           *)
LEMMA NamesDiffer ==
    ASSUME NEW s, NEW t, Named(relative(s)), Named(relative(t)),
           Last(relative(s)) = Last(relative(t)),
           Range(relative(s)) \cap {"_", Backslash} = {}, Range(relative(t)) \cap {"_", Backslash} = {},
           flattenSourceName(s) = flattenSourceName(t)
    PROVE  relative(s) = relative(t)
  <1> DEFINE p == relative(s)
             q == relative(t)
             n == Len(p)
             m == Len(q)
             Written(c) == IF c \in {"/", Backslash} THEN "_" ELSE c
  <1>1. /\ n \in Nat /\ n >= 3 /\ p \in Seq(Words \cup Separators \cup {Up}) /\ p[n - 1] = "."
        /\ DOMAIN Cut(p) = 1 .. n - 2 /\ \A i \in 1 .. n - 2 : Cut(p)[i] = p[i]
    BY CutIs DEF Named
  <1>2. /\ m \in Nat /\ m >= 3 /\ q \in Seq(Words \cup Separators \cup {Up}) /\ q[m - 1] = "."
        /\ DOMAIN Cut(q) = 1 .. m - 2 /\ \A i \in 1 .. m - 2 : Cut(q)[i] = q[i]
    BY CutIs DEF Named
  <1>3. flattenSourceName(s) = [i \in 1 .. n - 2 |-> Written(p[i])]
    BY <1>1 DEF flattenSourceName
  <1>4. flattenSourceName(t) = [i \in 1 .. m - 2 |-> Written(q[i])]
    BY <1>2 DEF flattenSourceName
  <1>5. p[n] = q[m]
    BY DEF Last
  <1>6. \A i \in 1 .. n : p[i] \notin {"_", Backslash}
    <2>1. DOMAIN p = 1 .. n
      BY <1>1, SequenceIs
    <2>2. Range(p) \cap {"_", Backslash} = {}
      OBVIOUS
    <2> HIDE DEF p, n
    <2> QED
      BY <2>1, <2>2 DEF Range
  <1>7. \A i \in 1 .. m : q[i] \notin {"_", Backslash}
    <2>1. DOMAIN q = 1 .. m
      BY <1>2, SequenceIs
    <2>2. Range(q) \cap {"_", Backslash} = {}
      OBVIOUS
    <2> HIDE DEF q, m
    <2> QED
      BY <2>1, <2>2 DEF Range
  <1> HIDE DEF p, q, n, m
  <1>8. m = n
    <2>1. 1 .. n - 2 = 1 .. m - 2
      <3> HIDE DEF Written
      <3> QED
        BY <1>3, <1>4
    <2> QED
      BY <1>1, <1>2, <2>1, LengthsAgree
  <1>9. ASSUME NEW i \in 1 .. n PROVE p[i] = q[i]
    <2>1. CASE i \in 1 .. n - 2
      <3>1. Written(p[i]) = Written(q[i])
        <4> HIDE DEF Written
        <4> QED
          BY <1>3, <1>4, <1>8, <2>1
      <3> QED
        BY <1>6, <1>7, <1>8, <3>1
    <2>2. CASE i = n - 1
      BY <1>1, <1>2, <1>8, <2>2
    <2>3. CASE i = n
      BY <1>5, <1>8, <2>3
    <2>4. i \in 1 .. n - 2 \/ i = n - 1 \/ i = n
      BY <1>1, Position
    <2> QED
      BY <2>1, <2>2, <2>3, <2>4
  <1>10. p = [i \in 1 .. n |-> p[i]] /\ q = [i \in 1 .. n |-> q[i]]
    <2>1. p = [i \in 1 .. n |-> p[i]]
      BY <1>1, SequenceIs DEF n
    <2>2. q = [i \in 1 .. m |-> q[i]]
      BY <1>2, SequenceIs DEF m
    <2> QED
      BY <1>8, <2>1, <2>2
  <1>11. p = q
    BY <1>9, <1>10
  <1> QED
    BY <1>11 DEF p, q

(* The directories that an absolute path shares with the project's are counted.  *)
LEMMA SharedIs ==
    ASSUME NEW p \in Paths
    PROVE  Shared(p) \in 0 .. Len(BaseDir) /\ GoesThrough(p, Shared(p))
  <1> DEFINE b == Len(BaseDir)
             G(k) == GoesThrough(p, k)
             Most(k) == \E x \in 0 .. k : G(x) /\ \A y \in 0 .. k : G(y) => x >= y
             T == {k \in 0 .. b : Most(k)}
             I == {k \in 0 .. b : G(k)}
  <1>1. b \in Nat
    BY BaseAssumption
  <1>2. G(0)
    BY PathType DEF GoesThrough
  <1> HIDE DEF b, G
  <1>3. 0 \in T
    BY <1>1, <1>2
  <1>4. ASSUME NEW k \in 0 .. b - 1, k \in T PROVE k + 1 \in T
    <2>1. PICK x \in 0 .. k : G(x) /\ \A y \in 0 .. k : G(y) => x >= y
      BY <1>4
    <2>2. k \in Nat /\ k + 1 \in 0 .. b /\ \A y \in 0 .. k + 1 : y \in 0 .. k \/ y = k + 1
      BY <1>1
    <2>3. CASE G(k + 1)
      <3>1. k + 1 \in 0 .. k + 1 /\ \A y \in 0 .. k + 1 : k + 1 >= y
        BY <2>2
      <3> QED
        BY <2>2, <2>3, <3>1
    <2>4. CASE ~G(k + 1)
      <3>1. x \in 0 .. k + 1
        BY <2>2
      <3> QED
        BY <2>1, <2>2, <2>4, <3>1
    <2> QED
      BY <2>3, <2>4
  <1> HIDE DEF T
  <1>5. b \in T
    <2>1. \A k \in 0 .. b : k \in T
      BY <1>1, <1>3, <1>4, UpTo_n
    <2> QED
      BY <1>1, <2>1
  <1>6. PICK x \in I : \A y \in I : x >= y
    BY <1>5 DEF T
  <1>7. Max(I) \in I
    <2> HIDE DEF I
    <2> QED
      BY <1>6 DEF Max
  <1>8. Shared(p) = Max(I)
    BY DEF Shared, b, G
  <1> QED
    BY <1>7, <1>8 DEF b, G

(* What is made of an absolute path behind n shared directories: so many steps   *)
(* up, and the rest of it.                                                       *)
Climbed(p, q, n) ==
    LET up == 2 * (Len(BaseDir) - n)
    IN  /\ Len(q) = up + Len(p) - 2 * n
        /\ \A i \in 1 .. up : q[i] = IF i % 2 = 1 THEN Up ELSE "/"
        /\ \A i \in 1 .. Len(p) - 2 * n : q[up + i] = p[2 * n + i]

(* fs::relative() of an absolute source is made so.                              *)
LEMMA RelativeIs ==
    ASSUME NEW source \in SourceNames, source.absolute
    PROVE  /\ relative(source) \in Seq(Words \cup Separators \cup {Up})
           /\ \E n \in 0 .. Len(BaseDir) :
                 /\ GoesThrough(source.path, n) /\ 2 * n <= Len(source.path) - 3
                 /\ Climbed(source.path, relative(source), n)
  <1> DEFINE p == source.path
             n == Shared(p)
             b == Len(BaseDir)
             S == Words \cup Separators \cup {Up}
             first == Ups(b - n)
             rest == SubSeq(p, 2 * n + 1, Len(p))
  <1>1. p \in Paths
    BY DEF SourceNames
  <1>2. /\ p \in Seq(Words \cup Separators) /\ Len(p) \in Nat /\ Len(p) >= 3 /\ Len(p) % 2 = 1
        /\ p[Len(p) - 1] = "."
    BY <1>1, PathType
  <1>3. b \in Nat /\ n \in 0 .. b /\ GoesThrough(p, n)
    BY <1>1, SharedIs, BaseAssumption
  <1>4. relative(source) = first \o rest
    BY DEF relative
  <1> HIDE DEF p, n, b
  <1>5. 2 * n <= Len(p) - 3
    <2>1. 2 * n < Len(p) /\ \A i \in 1 .. n : p[2 * i] = "/"
      BY <1>3 DEF GoesThrough
    <2>2. n > 0 => p[2 * n] = "/"
      BY <1>3, <2>1
    <2>3. n > 0 => 2 * n # Len(p) - 1
      BY <1>2, <2>2
    <2> QED
      BY <1>2, <1>3, <2>1, <2>3
  <1>6. /\ first \in Seq(S) /\ Len(first) = 2 * (b - n)
        /\ \A i \in 1 .. 2 * (b - n) : first[i] = IF i % 2 = 1 THEN Up ELSE "/"
    <2>1. 2 * (b - n) \in Nat
      BY <1>3
    <2>2. first = [i \in 1 .. 2 * (b - n) |-> IF i % 2 = 1 THEN Up ELSE "/"]
      BY DEF Ups
    <2>3. Up \in S /\ "/" \in S
      BY DEF Separators
    <2> HIDE DEF first, S
    <2> QED
      BY <2>1, <2>2, <2>3
  <1>7. /\ rest \in Seq(S) /\ Len(rest) = Len(p) - 2 * n
        /\ \A i \in 1 .. Len(p) - 2 * n : rest[i] = p[2 * n + i]
    <2>1. p \in Seq(S) /\ 2 * n \in Nat /\ 2 * n + 1 <= Len(p)
      BY <1>2, <1>3, <1>5
    <2> HIDE DEF S
    <2> QED
      BY <1>2, <2>1
  <1> HIDE DEF first, rest, S
  <1>8. /\ first \o rest \in Seq(S) /\ Len(first \o rest) = Len(first) + Len(rest)
        /\ \A i \in 1 .. Len(first) : (first \o rest)[i] = first[i]
        /\ \A i \in 1 .. Len(rest) : (first \o rest)[Len(first) + i] = rest[i]
    <2>1. first \in Seq(S) /\ rest \in Seq(S) /\ Len(first) \in Nat /\ Len(rest) \in Nat
      BY <1>6, <1>7
    <2>2. /\ first \o rest \in Seq(S) /\ Len(first \o rest) = Len(first) + Len(rest)
          /\ \A i \in 1 .. Len(first) + Len(rest) :
                (first \o rest)[i] = IF i <= Len(first) THEN first[i] ELSE rest[i - Len(first)]
      BY <2>1, ConcatProperties
    <2>3. \A i \in 1 .. Len(first) : i \in 1 .. Len(first) + Len(rest) /\ i <= Len(first)
      BY <2>1
    <2>4. \A i \in 1 .. Len(rest) :
             /\ Len(first) + i \in 1 .. Len(first) + Len(rest) /\ ~(Len(first) + i <= Len(first))
             /\ (Len(first) + i) - Len(first) = i
      BY <2>1
    <2> QED
      BY <2>2, <2>3, <2>4
  <1>9. Climbed(p, first \o rest, n)
    <2>1. Len(first \o rest) = 2 * (b - n) + Len(p) - 2 * n
      BY <1>2, <1>3, <1>6, <1>7, <1>8
    <2> QED
      BY <1>6, <1>7, <1>8, <2>1 DEF Climbed, b
  <1> QED
    BY <1>3, <1>4, <1>5, <1>8, <1>9 DEF p, b, S

(* The relative path of a source is a name with the source's extension, and      *)
(* plain if the source is.                                                       *)
LEMMA RelativeNamed ==
    ASSUME NEW source \in SourceNames
    PROVE  /\ Named(relative(source)) /\ Last(relative(source)) = Extension(source)
           /\ PlainSource(source) => Range(relative(source)) \cap {"_", Backslash} = {}
  <1> DEFINE p == source.path
             q == relative(source)
             S == Words \cup Separators
  <1>1. /\ p \in Seq(S) /\ Len(p) \in Nat /\ Len(p) >= 3 /\ DOMAIN p = 1 .. Len(p)
        /\ p[Len(p) - 1] = "." /\ p[Len(p)] # "."
    BY PathType DEF SourceNames
  <1>2. CASE ~source.absolute
    <2>1. q = p
      BY <1>2 DEF relative
    <2>2. p \in Seq(S \cup {Up})
      BY <1>1
    <2> QED
      BY <1>1, <2>1, <2>2 DEF Named, Extension, PlainSource
  <1>3. CASE source.absolute
    <2> DEFINE b == Len(BaseDir)
    <2>1. q \in Seq(S \cup {Up})
      BY <1>3, RelativeIs
    <2>2. PICK n \in 0 .. b : 2 * n <= Len(p) - 3 /\ Climbed(p, q, n)
      BY <1>3, RelativeIs
    <2>3. b \in Nat /\ n \in Nat /\ b - n \in Nat
      BY <2>2, BaseAssumption
    <2> DEFINE up == 2 * (b - n)
               l == Len(p) - 2 * n
    <2>4. up \in Nat /\ l \in Nat /\ l >= 3
      BY <1>1, <2>2, <2>3
    <2>5. /\ Len(q) = up + Len(p) - 2 * n
          /\ \A i \in 1 .. up : q[i] = IF i % 2 = 1 THEN Up ELSE "/"
          /\ \A i \in 1 .. l : q[up + i] = p[2 * n + i]
      BY <2>2 DEF Climbed
    <2> HIDE DEF p, q, b, up, l, S
    <2>6. Len(q) = up + l
      BY <1>1, <2>3, <2>4, <2>5 DEF l
    <2>7. q[up + l] = p[Len(p)] /\ q[up + (l - 1)] = p[Len(p) - 1]
      <3>1. l \in 1 .. l /\ l - 1 \in 1 .. l /\ 2 * n + l = Len(p) /\ 2 * n + (l - 1) = Len(p) - 1
        BY <1>1, <2>3, <2>4 DEF l
      <3> QED
        BY <2>5, <3>1
    <2>8. up + (l - 1) = Len(q) - 1
      BY <2>4, <2>6
    <2>9. Named(q)
      BY <1>1, <2>1, <2>4, <2>6, <2>7, <2>8 DEF Named, S
    <2>10. Last(q) = p[Len(p)]
      BY <2>6, <2>7 DEF Last
    <2>11. ASSUME PlainSource(source), NEW i \in 1 .. Len(q) PROVE q[i] \notin {"_", Backslash}
      <3>1. CASE i <= up
        <4>1. i \in 1 .. up
          BY <2>4, <2>6, <3>1
        <4> QED
          BY <2>5, <4>1 DEF Up, Backslash
      <3>2. CASE i > up
        <4>1. i - up \in 1 .. l /\ up + (i - up) = i /\ 2 * n + (i - up) \in 1 .. Len(p)
          BY <1>1, <2>3, <2>4, <2>6, <3>2 DEF l
        <4>2. q[i] = p[2 * n + (i - up)]
          BY <2>5, <4>1
        <4> QED
          BY <1>1, <2>11, <4>1, <4>2 DEF PlainSource, Range, p
      <3>3. i <= up \/ i > up
        BY <2>4, <2>6
      <3> QED
        BY <3>1, <3>2, <3>3, Zenon
    <2>12. DOMAIN q = 1 .. Len(q)
      BY <2>1
    <2>13. PlainSource(source) => Range(q) \cap {"_", Backslash} = {}
      BY <2>11, <2>12 DEF Range
    <2> QED
      BY <2>9, <2>10, <2>13 DEF Extension, Last, p, q
  <1> QED
    BY <1>2, <1>3

(* No two paths from the root are one path from the project: the first name      *)
(* behind the steps up says how many there are, and what these leave out is the  *)
(* project's.                                                                    *)
LEMMA ClimbedOnce ==
    ASSUME NEW p \in Paths, NEW r \in Paths, NEW q,
           NEW n \in 0 .. Len(BaseDir), 2 * n <= Len(p) - 3, Climbed(p, q, n),
           NEW m \in 0 .. Len(BaseDir), 2 * m <= Len(r) - 3, Climbed(r, q, m)
    PROVE  n <= m
  <1> SUFFICES ASSUME n > m PROVE FALSE
    BY BaseAssumption
  <1> DEFINE b == Len(BaseDir)
             j == 2 * (b - n) + 1
  <1>1. b \in Nat /\ n \in Nat /\ m \in Nat /\ Len(p) \in Nat /\ m < n /\ n <= b
    BY BaseAssumption, PathType
  <1> HIDE DEF b
  <1>2. j \in 1 .. 2 * (b - m) /\ j % 2 = 1
    BY <1>1
  <1>3. q[j] = Up
    BY <1>2 DEF Climbed, b
  <1>4. 1 \in 1 .. Len(p) - 2 * n /\ 2 * n + 1 \in 1 .. Len(p) /\ (2 * n + 1) % 2 = 1
    BY <1>1
  <1>5. q[j] = p[2 * n + 1]
    BY <1>4 DEF Climbed, b
  <1>6. p[2 * n + 1] \in Words
    BY <1>4, PathType
  <1> QED
    BY <1>3, <1>5, <1>6, WordAssumption

(* The names of the shared directories and the slashes behind them.              *)
LEMMA EvenOrOdd ==
    ASSUME NEW n \in Nat, NEW i \in 1 .. 2 * n
    PROVE  \E k \in 1 .. n : i = 2 * k \/ i = 2 * k - 1
  <1> DEFINE k == (i + 1) \div 2
  <1>1. k \in Int /\ 2 * k <= i + 1 /\ i + 1 < 2 * k + 2
    OBVIOUS
  <1> HIDE DEF k
  <1>2. k \in 1 .. n /\ (i = 2 * k \/ i = 2 * k - 1)
    BY <1>1
  <1> QED
    BY <1>2

(* Two sources from the root, or two from the project, are not one for the other. *)
LEMMA RelativeDiffers ==
    ASSUME NEW s \in SourceNames, NEW t \in SourceNames, s.absolute = t.absolute,
           relative(s) = relative(t)
    PROVE  s = t
  <1> DEFINE p == s.path
             r == t.path
             q == relative(s)
  <1>1. p \in Paths /\ r \in Paths
    BY DEF SourceNames
  <1>2. p = r => s = t
    BY DEF SourceNames
  <1>3. CASE ~s.absolute
    BY <1>2, <1>3 DEF relative
  <1>4. CASE s.absolute
    <2>1. PICK n \in 0 .. Len(BaseDir) :
             GoesThrough(p, n) /\ 2 * n <= Len(p) - 3 /\ Climbed(p, q, n)
      BY <1>4, RelativeIs
    <2>2. PICK m \in 0 .. Len(BaseDir) :
             GoesThrough(r, m) /\ 2 * m <= Len(r) - 3 /\ Climbed(r, q, m)
      BY <1>4, RelativeIs
    <2> HIDE DEF p, r, q
    <2>3. n <= m /\ m <= n
      BY <1>1, <2>1, <2>2, ClimbedOnce
    <2>4. n = m /\ n \in Nat /\ Len(BaseDir) \in Nat /\ Len(BaseDir) - n \in Nat
      BY <2>1, <2>2, <2>3, BaseAssumption
    <2>5. /\ Len(p) \in Nat /\ p = [i \in 1 .. Len(p) |-> p[i]]
          /\ Len(r) \in Nat /\ r = [i \in 1 .. Len(r) |-> r[i]]
      BY <1>1, PathType
    <2>6. Len(p) = Len(r)
      <3> DEFINE up == 2 * (Len(BaseDir) - n)
      <3>1. Len(q) = up + Len(p) - 2 * n /\ Len(q) = up + Len(r) - 2 * n
        BY <2>1, <2>2, <2>4 DEF Climbed
      <3>2. up \in Nat
        BY <2>4
      <3>3. Len(p) \in Nat /\ Len(r) \in Nat
        BY <2>5
      <3> HIDE DEF up
      <3> QED
        BY <2>4, <3>1, <3>2, <3>3
    <2>7. ASSUME NEW i \in 1 .. Len(p) PROVE p[i] = r[i]
      <3>1. CASE i <= 2 * n
        <4>1. PICK k \in 1 .. n : i = 2 * k \/ i = 2 * k - 1
          <5>1. i \in 1 .. 2 * n
            BY <2>4, <2>5, <3>1
          <5> QED
            BY <2>4, <5>1, EvenOrOdd
        <4>2. /\ p[2 * k - 1] = BaseDir[k] /\ p[2 * k] = "/"
              /\ r[2 * k - 1] = BaseDir[k] /\ r[2 * k] = "/"
          BY <2>1, <2>2, <2>4 DEF GoesThrough
        <4> QED
          BY <4>1, <4>2
      <3>2. CASE i > 2 * n
        <4> DEFINE k == i - 2 * n
                   up == 2 * (Len(BaseDir) - n)
        <4>1. k \in 1 .. Len(p) - 2 * n /\ 2 * n + k = i
          BY <2>4, <2>5, <3>2
        <4>2. q[up + k] = p[2 * n + k] /\ q[up + k] = r[2 * n + k]
          BY <2>1, <2>2, <2>4, <2>6, <4>1 DEF Climbed
        <4> QED
          BY <4>1, <4>2
      <3> QED
        BY <2>4, <2>5, <3>1, <3>2
    <2>8. p = r
      BY <2>5, <2>6, <2>7
    <2> QED
      BY <1>2, <2>8 DEF p, r
  <1> QED
    BY <1>3, <1>4 DEF SourceNames

(* A plain source can be told from the name of its output.                       *)
LEMMA PlainSourcesDiffer ==
    ASSUME NEW s \in SourceNames, NEW t \in SourceNames, s # t, s.absolute = t.absolute,
           Extension(s) = Extension(t), PlainSource(s), PlainSource(t)
    PROVE  flattenSourceName(s) # flattenSourceName(t)
  <1> SUFFICES ASSUME flattenSourceName(s) = flattenSourceName(t) PROVE FALSE
    OBVIOUS
  <1>1. relative(s) = relative(t)
    BY RelativeNamed, NamesDiffer
  <1> QED
    BY <1>1, RelativeDiffers

(* What a run of the naming functions keeps.                                     *)
NamesAnswered ==
    /\ request \in NameRequests
    /\ \/ reply = <<>>
       \/ request.kind = "flatten" /\ reply = FlattenAnswer(request)
       \/ request.kind = "escape" /\ reply = EscapeAnswer(request)

(* flattenSourceName() gives two plain sources of one extension two outputs, if  *)
(* both come from the root or both from the project, and Ninja reads back every  *)
(* path without a bar that ninjaEscape() wrote.                                  *)
THEOREM NamesAreToldApart == NamesSpec => []OutputsAreToldApart
  <1>1. request \in NameRequests /\ reply = <<>> => NamesAnswered
    BY DEF NamesAnswered
  <1>2. NamesAnswered /\ [Flatten \/ Escape]_<<request, reply>> => NamesAnswered'
    BY DEF NamesAnswered, Flatten, Escape, Answer, FlattenAnswer, EscapeAnswer
  <1>3. NamesAnswered => PlainNamesDiffer
    <2> SUFFICES ASSUME NamesAnswered, Answered("flatten") PROVE PlainNamesDiffer
      BY DEF PlainNamesDiffer
    <2>1. reply # <<>> /\ request.kind = "flatten" /\ reply = FlattenAnswer(request)
      BY DEF Answered, NamesAnswered
    <2>2. /\ reply[1] = flattenSourceName(request.sources[1])
          /\ reply[2] = flattenSourceName(request.sources[2])
      BY <2>1 DEF FlattenAnswer
    <2>3. /\ request.sources[1] \in SourceNames /\ request.sources[2] \in SourceNames
          /\ request.sources[1] # request.sources[2]
      BY <2>1 DEF NamesAnswered, NameRequests, FlattenRequests, EscapeRequests
    <2> QED
      BY <2>2, <2>3, PlainSourcesDiffer DEF PlainNamesDiffer
  <1>4. NamesAnswered => EscapeIsReadBack
    <2> SUFFICES ASSUME NamesAnswered, Answered("escape"), Bar \notin Range(request.text)
                 PROVE  EscapeIsReadBack
      BY DEF EscapeIsReadBack
    <2>1. reply # <<>> /\ request.kind = "escape" /\ reply = <<ninjaEscape(request.text)>>
      BY DEF Answered, NamesAnswered, EscapeAnswer
    <2>2. request.text \in TextsOf(Words \cup Special \cup {Bar})
      BY <2>1 DEF NamesAnswered, NameRequests, FlattenRequests, EscapeRequests
    <2>3. NinjaReads(reply[1]) = request.text
      BY <2>1, <2>2, ReadsBack
    <2> QED
      BY <2>3 DEF EscapeIsReadBack
  <1> QED
    BY <1>1, <1>2, <1>3, <1>4, PTL DEF NamesSpec, OutputsAreToldApart
================================================================================
