------------------------------ MODULE DebugAdapter ------------------------------
(* main() of topo-debug/adapter.cpp: launch a program under liblldb, run it to   *)
(* one line breakpoint, send the values of the requested variables to the CLI,   *)
(* wait for its "continue" and let the program run on.  lldb is in synchronous   *)
(* mode, so Launch() and Continue() block the adapter while the program runs.    *)
(* Four parties: the adapter, the program, the CLI at the other end of the two   *)
(* pipes, and the clock.                                                         *)
EXTENDS Integers, Sequences, SequencesExt

CONSTANTS
    MaxRequest,    \* bound: variables in the list a CLI asks for
    MaxInput,      \* bound: lines the CLI sends before it sends no more
    MaxRuns        \* bound: times the program changes its memory by running

(* What FindVariable(), the type checks and ReadRawData() make of a variable. *)
Readable == {"primitive", "struct"}
Kinds == Readable \cup {"absent", "unsupported", "unreadable"}

Requests == UNION {[1 .. n -> Kinds] : n \in 1 .. MaxRequest}

ASSUME BoundAssumption == MaxRequest \in Nat /\ MaxInput \in Nat /\ MaxRuns \in Nat \ {0}

Alive == {"running", "stopped"}
Gone == {"exited", "detached", "killed"}
ExitCodes == {0, 2, 3, 4}      \* 1, a usage error, precedes everything modelled here

VARIABLES
    pc,        \* the adapter: the point of main() it has reached
    code,      \* the adapter: its exit code once pc = "done"
    wanted,    \* the adapter: args.vars
    next,      \* the adapter: index of the variable the loop works on
    late,      \* the clock: the current deadline has passed
    program,   \* the program: its state, as SBProcess::GetState() reports it
    atBreak,   \* the program: some thread stopped with eStopReasonBreakpoint
    memory,    \* the program: version of its memory; running changes it
    wire,      \* records written to stdout
    input,     \* lines in the stdin pipe, a "eof" when the CLI closed it
    sent       \* lines the CLI has sent

adapter == <<pc, code, wanted, next>>
inferior == <<program, atBreak, memory>>
cli == <<input, sent>>
vars == <<pc, code, wanted, next, late, program, atBreak, memory, wire, input, sent>>

Hit == [kind |-> "breakpoint_hit"]
Bytes(i) == [kind |-> "var_bytes", variable |-> i, memory |-> memory]
Layout(i) == [kind |-> "layout_descriptor", variable |-> i,
              struct |-> wanted[i] = "struct"]
Records == {Hit} \cup [kind : {"var_bytes"}, variable : Nat, memory : 0 .. MaxRuns]
                \cup [kind : {"layout_descriptor"}, variable : Nat, struct : BOOLEAN]

--------------------------------------------------------------------------------
(* Where the adapter is blocked in lldb, and where it calls it. *)
Blocked == program = "running"
Return(c) == pc' = "done" /\ code' = c /\ UNCHANGED <<wanted, next>>
Goto(p) == pc' = p /\ UNCHANGED <<code, wanted, next>>
Killed == program' = "killed" /\ atBreak' = FALSE /\ UNCHANGED memory
Resume == program' = "running" /\ atBreak' = FALSE /\ UNCHANGED memory

(* SBDebugger::Create, CreateTarget, BreakpointCreateByLocation or Launch fails. *)
LaunchFails ==
    /\ pc = "start"
    /\ Return(2)
    /\ UNCHANGED <<late, inferior, wire, cli>>

(* Launch() starts the program and blocks until it first stops. *)
Launch ==
    /\ pc = "start"
    /\ Goto("wait")
    /\ Resume
    /\ UNCHANGED <<late, wire, cli>>

(* The deadline of the breakpoint wait is set when Launch() has returned; `late` *)
(* is still FALSE then, for the clock waits while the adapter is in Launch().    *)
WaitEnds ==
    /\ pc = "wait" /\ ~Blocked
    /\ Return(3)
    /\ \/ program = "exited" /\ UNCHANGED inferior
       \/ program = "crashed" /\ Killed
       \/ program = "detached" /\ late /\ UNCHANGED inferior    \* polled to the deadline
    /\ UNCHANGED <<late, wire, cli>>

(* Frame 0 of the thread is there, or the adapter gives up. *)
AnyStop == program = "stopped"     \* mutant: the stop reason is not looked at
AtBreakpoint == program = "stopped" /\ atBreak

BreakpointFound ==
    /\ pc = "wait" /\ AtBreakpoint
    /\ \/ /\ Goto("emit")
          /\ wire' = Append(wire, Hit)
          /\ UNCHANGED inferior
       \/ Return(3) /\ Killed /\ UNCHANGED wire
    /\ UNCHANGED <<late, cli>>

NeverTimesOut == FALSE      \* mutant: the deadline of the breakpoint wait is not read
TimedOut == late

(* A stop for any other reason: past the deadline give up, before it resume. *)
OtherStop ==
    /\ pc = "wait" /\ program = "stopped" /\ ~atBreak
    /\ \/ TimedOut /\ Return(3) /\ Killed
       \/ ~TimedOut /\ Goto("wait") /\ Resume
       \/ ~TimedOut /\ Return(3) /\ Killed           \* Continue() failed
    /\ UNCHANGED <<late, wire, cli>>

(* One iteration of the loop over args.vars: two records, or the end. *)
LeavesItRunning(c) == Return(c) /\ UNCHANGED inferior   \* mutant: no Kill()
Refuse(c) == Return(c) /\ Killed

AbsentIsSkipped ==       \* mutant: a variable that is not in scope is passed over
    next' = next + 1 /\ UNCHANGED <<pc, code, wanted, inferior, wire>>
Absent == Refuse(3) /\ UNCHANGED wire

EmitVariable ==
    /\ pc = "emit" /\ next <= Len(wanted)
    /\ CASE wanted[next] = "absent"      -> Absent
         [] wanted[next] = "unsupported" -> Refuse(4) /\ UNCHANGED wire
         [] wanted[next] = "unreadable"  -> Refuse(3) /\ UNCHANGED wire
         [] OTHER -> /\ wire' = wire \o <<Bytes(next), Layout(next)>>
                     /\ next' = next + 1
                     /\ UNCHANGED <<pc, code, wanted, inferior>>
    /\ UNCHANGED <<late, cli>>

AllEmitted ==
    /\ pc = "emit" /\ next > Len(wanted)
    /\ Goto("await")
    /\ UNCHANGED <<late, inferior, wire, cli>>

(* getline(): a line that is not {"op":"continue"}, JSON or not, is dropped;     *)
(* end of input counts as a continue.  Continue() then blocks, or fails, which   *)
(* is not looked at.                                                             *)
AwaitContinue ==
    /\ pc = "await" /\ input # <<>>
    /\ input' = IF Head(input) = "eof" THEN input ELSE Tail(input)
    /\ IF Head(input) = "other"
         THEN Goto("await") /\ UNCHANGED <<inferior, late>>
         ELSE Goto("exitwait") /\ late' = FALSE /\ (Resume \/ UNCHANGED inferior)
    /\ UNCHANGED <<wire, sent>>

(* The exit wait polls GetState() until the program is gone or time is up. *)
ExitSeen ==
    /\ pc = "exitwait" /\ program \in Gone \cup {"crashed"}
    /\ Return(0)
    /\ UNCHANGED <<late, inferior, wire, cli>>

ExitTimesOut ==
    /\ pc = "exitwait" /\ program = "stopped" /\ late
    /\ Return(0)
    /\ Killed
    /\ UNCHANGED <<late, wire, cli>>

AdapterStep ==
    \/ LaunchFails \/ Launch \/ WaitEnds \/ BreakpointFound \/ OtherStop
    \/ EmitVariable \/ AllEmitted \/ AwaitContinue \/ ExitSeen \/ ExitTimesOut

--------------------------------------------------------------------------------
(* The program stops at the breakpoint or for another reason, exits, crashes,    *)
(* or is taken off the debugger.  It runs only between two calls of lldb.        *)
Ran == memory' = IF memory < MaxRuns THEN memory + 1 ELSE memory

Stops ==
    /\ program = "running"
    /\ program' = "stopped" /\ atBreak' \in BOOLEAN
    /\ Ran
    /\ UNCHANGED <<adapter, late, wire, cli>>

Ends ==
    /\ program = "running"
    /\ program' \in {"exited", "crashed", "detached"} /\ atBreak' = FALSE
    /\ Ran
    /\ UNCHANGED <<adapter, late, wire, cli>>

(* A deadline passes, when there is one: it is set after the blocking call.  The *)
(* first is set once; a later stop of the same wait finds it running on.         *)
Tick ==
    /\ ~late
    /\ \/ pc = "wait" /\ (memory > 0 \/ ~Blocked)
       \/ pc = "exitwait" /\ ~Blocked
    /\ late' = TRUE
    /\ UNCHANGED <<adapter, inferior, wire, cli>>

(* The CLI writes lines at any time and may close the pipe. *)
Sends ==
    /\ sent < MaxInput /\ "eof" \notin Range(input)
    /\ \E l \in {"continue", "other"} : input' = Append(input, l)
    /\ sent' = sent + 1
    /\ UNCHANGED <<adapter, late, inferior, wire>>

Closes ==
    /\ "eof" \notin Range(input)
    /\ input' = Append(input, "eof")
    /\ UNCHANGED <<adapter, late, inferior, wire, sent>>

Environment == Stops \/ Ends \/ Tick \/ Sends \/ Closes

--------------------------------------------------------------------------------
Init ==
    /\ pc = "start" /\ code = 0 /\ wanted \in Requests /\ next = 1
    /\ late = FALSE
    /\ program = "none" /\ atBreak = FALSE /\ memory = 0
    /\ wire = <<>> /\ input = <<>> /\ sent = 0

Next == AdapterStep \/ Environment

(* The adapter is one sequential thread and the clock does not stop.  Nothing    *)
(* makes the program stop or end, nor the CLI write or close its pipe.           *)
Fairness == WF_vars(AdapterStep) /\ WF_vars(Tick)

Spec == Init /\ [][Next]_vars /\ Fairness

--------------------------------------------------------------------------------
(* Every variable stays in its type. *)
TypeOK ==
    /\ pc \in {"start", "wait", "emit", "await", "exitwait", "done"}
    /\ code \in ExitCodes /\ wanted \in Requests
    /\ next \in 1 .. Len(wanted) + 1
    /\ late \in BOOLEAN /\ atBreak \in BOOLEAN
    /\ program \in Alive \cup Gone \cup {"none", "crashed"}
    /\ memory \in 0 .. MaxRuns /\ sent \in 0 .. MaxInput
    /\ wire \in Seq(Records) /\ input \in Seq({"continue", "other", "eof"})

(* What the CLI reads is the hit and then whole pairs in the order it asked for  *)
(* them, and exit code 0 means it has them all: the CLI drains exactly           *)
(* args.vars.size() pairs (adapter.cpp:542-544).                                 *)
PairsSent(n) ==
    /\ Len(wire) = 2 * n + 1 /\ wire[1] = Hit
    /\ \A i \in 1 .. n :
          /\ wire[2 * i].kind = "var_bytes" /\ wire[2 * i].variable = i
          /\ wire[2 * i + 1] = Layout(i)

CompleteOnSuccess ==
    /\ wire = <<>> \/ \E n \in 0 .. Len(wanted) : PairsSent(n)
    /\ pc = "done" /\ code = 0 =>
         PairsSent(Len(wanted)) /\ \A i \in 1 .. Len(wanted) : wanted[i] \in Readable

(* From the hit to the "continue" the program stays at the breakpoint and every  *)
(* value sent is of the memory it has there: no variable of an answer is older   *)
(* than another, whatever stops the wait went through before.                    *)
FrozenUntilContinue ==
    pc \in {"emit", "await"} =>
        /\ program = "stopped" /\ atBreak
        /\ \A k \in DOMAIN wire : wire[k].kind = "var_bytes" => wire[k].memory = memory

(* Whatever path main() returns by, it leaves no program running or stopped      *)
(* behind: every early return after Launch() kills it first.                     *)
NoProgramLeftBehind == pc = "done" => program \notin Alive

(* The adapter ends, unless the program keeps it in Launch() or Continue(), by   *)
(* neither stopping nor ending, or the CLI in getline(), by neither writing nor  *)
(* closing its pipe.  The two loops that poll always end, also if the program    *)
(* stops again and again for other reasons and ends under the debugger's hands.  *)
AdapterEnds ==
    \/ <>(pc = "done")
    \/ <>[](pc \in {"wait", "exitwait"} /\ Blocked)
    \/ <>[](pc = "await" /\ input = <<>>)

(* "A 10 s wall clock guards the breakpoint wait" (adapter.cpp:21), so the wait  *)
(* ends whatever the program does.  The code looks at that clock only between    *)
(* two calls that block.                                                         *)
WaitIsGuarded == pc = "wait" ~> pc # "wait"
================================================================================
