----------------------------- MODULE BashProofs -----------------------------
(***************************************************************************)
(* TLAPS proofs about the two halves of the Bash tool.  BackgroundShells:  *)
(* for any number of shells, pids and concurrent KillShell calls, and any  *)
(* output cap, no process escapes the registry and no output is lost while *)
(* bash runs.  ForegroundCommand: for every race of command, children,     *)
(* context and timers, what the caller is told is what happened.           *)
(***************************************************************************)
EXTENDS BackgroundShells, ForegroundCommand, TLAPS

-----------------------------------------------------------------------------
(* Background shells: no process escapes the registry.                     *)

\* The part of TypeOK the argument needs.
Types ==
    /\ registry \subseteq Shells
    /\ hpc \in [Shells -> {"idle", "registered", "started", "tracked", "returned", "failed"}]
    /\ pgid \in [Shells -> Pids \cup {NoPid}]
    /\ pidOf \in [Shells -> Pids \cup {NoPid}]
    /\ bash \in [Shells -> {"none", "running", "zombie", "reaped"}]
    /\ kids \in [Shells -> BOOLEAN]
    /\ kpc \in [Callers -> {"idle", "got", "signalled"}]
    /\ target \in [Callers -> Shells \cup {NoShell}]

\* Nothing lives before Start succeeded or after it failed.
OnlyStartedLive ==
    \A s \in Shells : hpc[s] \in {"idle", "registered", "failed"} => ~Running(s) /\ ~kids[s]

\* A shell is registered before its process is started.
RegisteredFirst == \A s \in Shells : hpc[s] = "registered" => s \in registry

\* From SetPgid on the shell knows the group its processes are in.
PgidIsGroup ==
    \A s \in Shells : hpc[s] \in {"tracked", "returned"} => pgid[s] = pidOf[s]

\* A started shell has a pid.
StartedHasPid ==
    \A s \in Shells : hpc[s] \in {"started", "tracked", "returned"} => pidOf[s] \in Pids

\* A KillShell call works on a shell whose id was returned, and once it has
\* signalled nothing of that shell is left alive.
KillsReturned ==
    \A c \in Callers : kpc[c] # "idle" => target[c] \in Shells /\ hpc[target[c]] = "returned"

SignalledAreDead ==
    \A c \in Callers : kpc[c] = "signalled" => ~Running(target[c]) /\ ~kids[target[c]]

IInv ==
    /\ Types
    /\ OnlyStartedLive
    /\ RegisteredFirst
    /\ PgidIsGroup
    /\ StartedHasPid
    /\ KillsReturned
    /\ SignalledAreDead
    /\ NoUntrackedProcess

\* The kernel never hands out pid 0, so pgid > 0 tells a started shell.
LEMMA PidPositive == \A p \in Pids : p > 0
BY ConstantsAssumption

\* The invariant holds initially: nothing is registered and nothing lives.
LEMMA InitIInv == Init => IInv
BY ConstantsAssumption
   DEF Init, IInv, Types, OnlyStartedLive, RegisteredFirst, PgidIsGroup, StartedHasPid, KillsReturned,
       SignalledAreDead, NoUntrackedProcess, Alive, Running, NoPid

\* Every step of a handler, a process group, a goroutine or a KillShell call
\* preserves it.
LEMMA StepIInv == IInv /\ [Next]_vars => IInv'
<1> SUFFICES ASSUME IInv, [Next]_vars PROVE IInv'
    OBVIOUS
<1> USE DEF IInv, Types, OnlyStartedLive, RegisteredFirst, PgidIsGroup, StartedHasPid, KillsReturned,
            SignalledAreDead, NoUntrackedProcess, Alive, Running
<1>1. ASSUME NEW s \in Shells, Register(s) PROVE IInv'
    BY <1>1 DEF Register, kernelVars, killVars
<1>2. ASSUME NEW s \in Shells, StartFails(s) PROVE IInv'
    BY <1>2 DEF StartFails, kernelVars, killVars
<1>3. ASSUME NEW s \in Shells, NEW p \in Pids, Start(s, p) PROVE IInv'
    <2>1. /\ hpc[s] = "registered" /\ ~kids[s]
          /\ UNCHANGED <<registry, pgid, kids, kpc, target>>
        BY <1>3 DEF Start, killVars
    <2>2. Types'
        BY <1>3, <2>1 DEF Start
    <2>3. /\ hpc' = [hpc EXCEPT ![s] = "started"]
          /\ pidOf' = [pidOf EXCEPT ![s] = p]
          /\ bash' = [bash EXCEPT ![s] = "running"]
        BY <1>3 DEF Start
    <2>4. OnlyStartedLive' /\ RegisteredFirst'
        BY <2>1, <2>3
    <2>5. PgidIsGroup' /\ StartedHasPid'
        BY <2>1, <2>3
    <2>6. \A c \in Callers : kpc[c] # "idle" => target[c] # s
        BY <2>1
    <2>7. KillsReturned'
        BY <2>1, <2>3, <2>6
    <2>8. SignalledAreDead'
        BY <2>1, <2>3, <2>6
    <2>9. s \in registry
        BY <2>1
    <2>10. NoUntrackedProcess'
        BY <2>1, <2>3, <2>9
    <2> QED BY <2>2, <2>4, <2>5, <2>7, <2>8, <2>10
<1>4. ASSUME NEW s \in Shells, SetPgid(s) PROVE IInv'
    BY <1>4 DEF SetPgid, kernelVars, killVars
<1>5. ASSUME NEW s \in Shells, Return(s) PROVE IInv'
    BY <1>5 DEF Return, kernelVars, killVars
<1>6. ASSUME NEW s \in Shells, Fork(s) PROVE IInv'
    BY <1>6 DEF Fork, shellVars, killVars
<1>7. ASSUME NEW s \in Shells, NEW st \in Streams, NEW n \in 1..MaxWritten, Write(s, st, n) PROVE IInv'
    BY <1>7 DEF Write, shellVars, kernelVars, killVars
<1>8. ASSUME NEW s \in Shells, BashExits(s) PROVE IInv'
    BY <1>8 DEF BashExits, shellVars, killVars
<1>9. ASSUME NEW s \in Shells, KidsExit(s) PROVE IInv'
    BY <1>9 DEF KidsExit, shellVars, killVars
<1>10. ASSUME NEW s \in Shells, NEW st \in Streams, Drainer(s, st) PROVE IInv'
    BY <1>10 DEF Drainer, DrainRead, DrainEnds, shellVars, kernelVars, killVars
<1>11. ASSUME NEW s \in Shells, WaitReaps(s) PROVE IInv'
    BY <1>11 DEF WaitReaps, shellVars, killVars
<1>12. ASSUME NEW s \in Shells, WaitClosesPipes(s) PROVE IInv'
    BY <1>12 DEF WaitClosesPipes, shellVars, kernelVars, killVars
<1>13. ASSUME NEW s \in Shells, SetExit(s) PROVE IInv'
    BY <1>13 DEF SetExit, kernelVars, killVars
<1>14. ASSUME NEW c \in Callers, NEW s \in Shells, KillGet(c, s) PROVE IInv'
    BY <1>14 DEF KillGet, shellVars, kernelVars
<1>15. ASSUME NEW c \in Callers, KillSignal(c) PROVE IInv'
    <2> DEFINE t == target[c]
    <2>0. t \in Shells /\ hpc[t] = "returned" /\ pgid[t] = pidOf[t] /\ pidOf[t] \in Pids
        BY <1>15 DEF KillSignal
    <2>1. t \in Shells /\ pgid[t] = pidOf[t] /\ pgid[t] > 0
        BY <2>0, PidPositive
    <2>2. SignalGroup(pidOf[t])
        BY <1>15, <2>1 DEF KillSignal
    <2>3. \A s \in Shells : /\ bash'[s] = "running" => Running(s) /\ pidOf[s] # pidOf[t]
                            /\ kids'[s] => kids[s] /\ pidOf[s] # pidOf[t]
        BY <2>2 DEF SignalGroup
    <2>4. Types' /\ UNCHANGED <<registry, hpc, pgid, pidOf, target>>
        BY <1>15, <2>2 DEF KillSignal, SignalGroup, shellVars
    <2>5. \A d \in Callers : kpc'[d] = "signalled" => d = c \/ kpc[d] = "signalled"
        BY <1>15 DEF KillSignal
    <2>6. \A d \in Callers : kpc'[d] # "idle" => kpc[d] # "idle"
        BY <1>15 DEF KillSignal
    <2>7. SignalledAreDead'
        BY <2>1, <2>3, <2>4, <2>5
    <2>8. KillsReturned' /\ OnlyStartedLive' /\ RegisteredFirst' /\ PgidIsGroup' /\ StartedHasPid' /\ NoUntrackedProcess'
        BY <2>3, <2>4, <2>6
    <2> QED BY <2>4, <2>7, <2>8
<1>16. ASSUME NEW c \in Callers, KillRemove(c) PROVE IInv'
    BY <1>16 DEF KillRemove, kernelVars
<1>17. CASE UNCHANGED vars
    BY <1>17 DEF vars, shellVars, kernelVars, killVars
<1> QED
    BY <1>1, <1>2, <1>3, <1>4, <1>5, <1>6, <1>7, <1>8, <1>9, <1>10, <1>11, <1>12, <1>13,
       <1>14, <1>15, <1>16, <1>17
    DEF Next, Handler, Group, Waiter, KillShell

\* NoUntrackedProcess holds in every reachable state, whatever the number of
\* shells, pids and concurrent KillShell calls: the order Register, Start,
\* SetPgid, return of the handler and Get, Kill, Remove of KillShell is enough.
THEOREM NoProcessEscapes == Spec => []NoUntrackedProcess
<1>1. IInv => NoUntrackedProcess
    BY DEF IInv
<1> QED
    BY <1>1, InitIInv, StepIInv, PTL DEF Spec

-----------------------------------------------------------------------------
(* Background shells: nothing is lost while bash runs.                     *)

\* A stream's drain and the kernel pipe, as far as the argument needs them.
OutTypes ==
    /\ exited \in [Shells -> BOOLEAN]
    /\ buf \in [Shells -> [Streams -> 0..OutputCap]]
    /\ trunc \in [Shells -> [Streams -> BOOLEAN]]
    /\ wpc \in [Shells -> {"off", "waiting", "reaped", "closed", "done"}]
    /\ pipe \in [Shells -> [Streams -> Nat]]
    /\ written \in [Shells -> [Streams -> Nat]]

\* A stream is flagged only when its buffer is full, and what was written to
\* one that is not is in the buffer or still in the pipe, running or not.
Conserved ==
    \A s \in Shells, st \in Streams :
        /\ trunc[s][st] => buf[s][st] = OutputCap
        /\ ~trunc[s][st] => buf[s][st] + pipe[s][st] = written[s][st]

\* The waiter starts with the handler's return, reaps before it records the
\* exit, and only a bash that ended is reaped.
ExitOrder ==
    \A s \in Shells :
        /\ wpc[s] # "off" => hpc[s] = "returned"
        /\ wpc[s] \in {"reaped", "closed", "done"} => bash[s] = "reaped"
        /\ exited[s] => wpc[s] = "done"

OutInv == OutTypes /\ Conserved /\ ExitOrder

\* appendCapped keeps the buffer within its cap; it accounts for the whole
\* chunk or sets the flag, and then the buffer is full.
LEMMA AppendKeepsCap ==
    ASSUME NEW dst \in 0..OutputCap, NEW n \in Nat, NEW full \in BOOLEAN, full => dst = OutputCap
    PROVE  LET r == AppendCapped(dst, n, full) IN
           /\ r.len \in 0..OutputCap
           /\ r.trunc \in BOOLEAN
           /\ r.trunc => r.len = OutputCap
           /\ ~r.trunc => ~full /\ r.len = dst + n
BY ConstantsAssumption DEF AppendCapped

\* Initially nothing is written and nothing has ended.
LEMMA InitOutInv == Init => OutInv
BY ConstantsAssumption DEF Init, OutInv, OutTypes, Conserved, ExitOrder

\* Every step preserves it.  The steps that touch neither the output nor the
\* waiter matter only for ExitOrder: a handler does not go back from its
\* return, and neither a signal nor an exit revives a reaped bash.
LEMMA StepOutInv == IInv /\ OutInv /\ [Next]_vars => OutInv'
<1> SUFFICES ASSUME IInv, OutInv, [Next]_vars PROVE OutInv'
    OBVIOUS
<1> USE DEF OutInv
<1>0. /\ hpc \in [Shells -> {"idle", "registered", "started", "tracked", "returned", "failed"}]
      /\ bash \in [Shells -> {"none", "running", "zombie", "reaped"}]
    BY DEF IInv, Types
<1>1. ASSUME UNCHANGED <<buf, trunc, pipe, written, exited, wpc>>,
             \A s \in Shells : hpc[s] = "returned" => hpc'[s] = "returned",
             \A s \in Shells : bash[s] = "reaped" => bash'[s] = "reaped"
      PROVE  OutInv'
    BY <1>1 DEF OutTypes, Conserved, ExitOrder
<1>2. ASSUME NEW s \in Shells, Handler(s) PROVE OutInv'
    <2>1. CASE Return(s)
        <3>1. hpc' = [hpc EXCEPT ![s] = "returned"] /\ wpc' = [wpc EXCEPT ![s] = "waiting"]
              /\ hpc[s] = "tracked" /\ UNCHANGED <<buf, trunc, pipe, written, exited, bash>>
            BY <2>1 DEF Return, kernelVars
        <3>2. wpc[s] = "off"
            BY <3>1, <1>0 DEF ExitOrder, OutTypes
        <3>3. OutTypes' /\ Conserved'
            BY <3>1 DEF OutTypes, Conserved
        <3>4. ExitOrder'
            BY <3>1, <3>2, <1>0 DEF ExitOrder, OutTypes
        <3> QED BY <3>3, <3>4
    <2>2. ASSUME NEW p \in Pids, Start(s, p) PROVE OutInv'
        <3>1. /\ hpc' = [hpc EXCEPT ![s] = "started"] /\ hpc[s] = "registered"
              /\ bash' = [bash EXCEPT ![s] = "running"]
              /\ UNCHANGED <<buf, trunc, pipe, written, exited, wpc>>
            BY <2>2 DEF Start
        <3>2. wpc[s] = "off"
            BY <3>1, <1>0 DEF ExitOrder, OutTypes
        <3>3. OutTypes' /\ Conserved'
            BY <3>1 DEF OutTypes, Conserved
        <3>4. ExitOrder'
            BY <3>1, <3>2, <1>0 DEF ExitOrder, OutTypes
        <3> QED BY <3>3, <3>4
    <2>3. CASE Register(s) \/ StartFails(s) \/ SetPgid(s)
        BY <2>3, <1>0, <1>1 DEF Register, StartFails, SetPgid, outputVars, kernelVars
    <2> QED BY <1>2, <2>1, <2>2, <2>3 DEF Handler
<1>3. ASSUME NEW s \in Shells, Fork(s) \/ BashExits(s) \/ KidsExit(s) PROVE OutInv'
    BY <1>0, <1>1, <1>3 DEF Fork, BashExits, KidsExit, Running, shellVars, outputVars
<1>4. ASSUME NEW s \in Shells, NEW st \in Streams, NEW n \in 1..MaxWritten, Write(s, st, n) PROVE OutInv'
    <2>1. /\ written' = [written EXCEPT ![s][st] = @ + n] /\ pipe' = [pipe EXCEPT ![s][st] = @ + n]
          /\ UNCHANGED <<buf, trunc, exited, wpc, hpc, bash>>
        BY <1>4 DEF Write, shellVars, kernelVars
    <2>2. n \in Nat
        BY ConstantsAssumption
    <2>3. OutTypes'
        BY <2>1, <2>2 DEF OutTypes
    <2>4. Conserved'
        BY <2>1, <2>2, ConstantsAssumption DEF OutTypes, Conserved
    <2>5. ExitOrder'
        BY <2>1 DEF ExitOrder
    <2> QED BY <2>3, <2>4, <2>5
<1>5. ASSUME NEW s \in Shells, NEW st \in Streams, DrainRead(s, st) PROVE OutInv'
    <2>1. PICK n \in 1..pipe[s][st] :
              /\ pipe' = [pipe EXCEPT ![s][st] = @ - n]
              /\ buf' = [buf EXCEPT ![s][st] = AppendCapped(buf[s][st], n, trunc[s][st]).len]
              /\ trunc' = [trunc EXCEPT ![s][st] = AppendCapped(buf[s][st], n, trunc[s][st]).trunc]
        BY <1>5 DEF DrainRead
    <2>2. UNCHANGED <<written, exited, wpc, hpc, bash>>
        BY <1>5 DEF DrainRead, shellVars, kernelVars
    <2>3. pipe[s][st] \in Nat /\ buf[s][st] \in 0..OutputCap /\ trunc[s][st] \in BOOLEAN
        BY DEF OutTypes
    <2>4. n \in Nat /\ n <= pipe[s][st]
        BY <2>3
    <2> DEFINE r == AppendCapped(buf[s][st], n, trunc[s][st])
    <2>5. /\ r.len \in 0..OutputCap /\ r.trunc \in BOOLEAN
          /\ r.trunc => r.len = OutputCap
          /\ ~r.trunc => ~trunc[s][st] /\ r.len = buf[s][st] + n
        BY <2>3, <2>4, AppendKeepsCap DEF Conserved
    <2> HIDE DEF r
    <2>6. OutTypes'
        <3>1. buf' \in [Shells -> [Streams -> 0..OutputCap]]
            BY <2>1, <2>5 DEF OutTypes, r
        <3>2. trunc' \in [Shells -> [Streams -> BOOLEAN]]
            BY <2>1, <2>5 DEF OutTypes, r
        <3>3. pipe' \in [Shells -> [Streams -> Nat]]
            BY <2>1, <2>3, <2>4 DEF OutTypes
        <3> QED BY <2>2, <3>1, <3>2, <3>3 DEF OutTypes
    <2>7. ASSUME NEW q \in Shells, NEW u \in Streams
          PROVE  /\ trunc'[q][u] => buf'[q][u] = OutputCap
                 /\ ~trunc'[q][u] => buf'[q][u] + pipe'[q][u] = written'[q][u]
        <3>1. CASE q = s /\ u = st
            <4>1. buf'[q][u] = r.len /\ trunc'[q][u] = r.trunc /\ pipe'[q][u] = pipe[q][u] - n
                BY <2>1, <3>1 DEF OutTypes, r
            <4> QED BY <4>1, <2>2, <2>3, <2>4, <2>5, <3>1, ConstantsAssumption DEF Conserved, OutTypes
        <3>2. CASE ~(q = s /\ u = st)
            <4>1. buf'[q][u] = buf[q][u] /\ trunc'[q][u] = trunc[q][u] /\ pipe'[q][u] = pipe[q][u]
                BY <2>1, <3>2 DEF OutTypes
            <4> QED BY <4>1, <2>2 DEF Conserved
        <3> QED BY <3>1, <3>2
    <2>8. Conserved'
        BY <2>7 DEF Conserved
    <2>9. ExitOrder'
        BY <2>2 DEF ExitOrder
    <2> QED BY <2>6, <2>8, <2>9
<1>6. ASSUME NEW s \in Shells, NEW st \in Streams, DrainEnds(s, st) PROVE OutInv'
    BY <1>1, <1>6 DEF DrainEnds, shellVars, kernelVars
<1>7. ASSUME NEW s \in Shells, Waiter(s) PROVE OutInv'
    <2>1. UNCHANGED <<buf, trunc, pipe, written, hpc>>
        BY <1>7 DEF Waiter, WaitReaps, WaitClosesPipes, SetExit, shellVars, outputVars
    <2>2. Conserved'
        BY <2>1 DEF Conserved
    <2>3. CASE WaitReaps(s)
        BY <2>1, <2>2, <2>3, <1>0 DEF WaitReaps, OutTypes, ExitOrder, shellVars
    <2>4. CASE WaitClosesPipes(s)
        BY <2>1, <2>2, <2>4, <1>0 DEF WaitClosesPipes, OutTypes, ExitOrder, shellVars, kernelVars
    <2>5. CASE SetExit(s)
        BY <2>1, <2>2, <2>5, <1>0 DEF SetExit, OutTypes, ExitOrder, kernelVars
    <2> QED BY <1>7, <2>3, <2>4, <2>5 DEF Waiter
<1>8. ASSUME NEW c \in Callers, KillShell(c) PROVE OutInv'
    <2>1. UNCHANGED <<buf, trunc, pipe, written, exited, wpc, hpc>>
        BY <1>8 DEF KillShell, KillGet, KillSignal, KillRemove, shellVars, outputVars
    <2>2. \A s \in Shells : bash[s] = "reaped" => bash'[s] = "reaped"
        BY <1>8, <1>0 DEF KillShell, KillGet, KillSignal, KillRemove, SignalGroup, Running, kernelVars
    <2> QED BY <1>1, <2>1, <2>2
<1>9. CASE UNCHANGED vars
    BY <1>1, <1>9 DEF vars, shellVars, outputVars, kernelVars
<1> QED
    BY <1>2, <1>3, <1>4, <1>5, <1>6, <1>7, <1>8, <1>9 DEF Next, Group, Drainer

\* NothingLostWhileRunning holds in every reachable state, whatever the cap
\* and however writes, reads, exits and kills interleave: BashOutput never
\* reports a running bash as completed, and output that is neither captured
\* nor in the pipe is announced by the flag of a full buffer.
THEOREM NothingLost == Spec => []NothingLostWhileRunning
<1>1. OutInv => NothingLostWhileRunning
    BY DEF OutInv, OutTypes, Conserved, ExitOrder, NothingLostWhileRunning, Running
<1> QED
    BY <1>1, InitIInv, StepIInv, InitOutInv, StepOutInv, PTL DEF Spec

-----------------------------------------------------------------------------
(* Background shells: types.  The pipe's bound is not a type's own: what   *)
(* is in a pipe was written, and that is bounded.                          *)

PipeWasWritten == \A s \in Shells, st \in Streams : pipe[s][st] <= written[s][st]

TypeInv == TypeOK /\ PipeWasWritten

\* Initially nothing runs and nothing is written.
LEMMA InitTypeInv == Init => TypeInv
BY ConstantsAssumption DEF Init, TypeInv, TypeOK, PipeWasWritten, NoPid

\* Every step keeps the types.
LEMMA StepTypeInv == TypeInv /\ [Next]_vars => TypeInv'
<1> SUFFICES ASSUME TypeInv, [Next]_vars PROVE TypeInv'
    OBVIOUS
<1> USE DEF TypeInv
<1>1. ASSUME UNCHANGED <<pipe, written>>, TypeOK' PROVE TypeInv'
    BY <1>1 DEF PipeWasWritten
<1>2. ASSUME NEW s \in Shells, Register(s) \/ StartFails(s) \/ SetPgid(s) PROVE TypeInv'
    <2>1. CASE Register(s)
        BY <1>1, <2>1 DEF Register, TypeOK, outputVars, kernelVars, killVars
    <2>2. CASE StartFails(s)
        BY <1>1, <2>2 DEF StartFails, TypeOK, outputVars, kernelVars, killVars
    <2>3. CASE SetPgid(s)
        BY <1>1, <2>3 DEF SetPgid, TypeOK, outputVars, kernelVars, killVars
    <2> QED BY <1>2, <2>1, <2>2, <2>3
<1>3. ASSUME NEW s \in Shells, NEW p \in Pids, Start(s, p) PROVE TypeInv'
    BY <1>1, <1>3 DEF Start, TypeOK, killVars
<1>4. ASSUME NEW s \in Shells, Return(s) PROVE TypeInv'
    <2>1. [st \in Streams |-> "reading"] \in [Streams -> {"off", "reading", "done"}]
        OBVIOUS
    <2>2. drain' \in [Shells -> [Streams -> {"off", "reading", "done"}]]
        BY <1>4, <2>1 DEF Return, TypeOK
    <2> QED BY <1>1, <1>4, <2>2 DEF Return, TypeOK, kernelVars, killVars
<1>5. ASSUME NEW s \in Shells, Fork(s) \/ BashExits(s) \/ KidsExit(s) PROVE TypeInv'
    BY <1>1, <1>5 DEF Fork, BashExits, KidsExit, TypeOK, shellVars, outputVars, killVars
<1>6. ASSUME NEW s \in Shells, NEW st \in Streams, NEW n \in 1..MaxWritten, Write(s, st, n) PROVE TypeInv'
    <2>1. n \in Nat /\ MaxWritten \in Nat
        BY ConstantsAssumption
    <2>2. /\ written[s][st] \in 0..MaxWritten /\ pipe[s][st] \in 0..MaxWritten
          /\ pipe[s][st] <= written[s][st] /\ written[s][st] + n <= MaxWritten
        BY <1>6 DEF Write, TypeOK, PipeWasWritten
    <2>3. written[s][st] + n \in 0..MaxWritten /\ pipe[s][st] + n \in 0..MaxWritten
        BY <2>1, <2>2
    <2>4. written' = [written EXCEPT ![s][st] = @ + n] /\ pipe' = [pipe EXCEPT ![s][st] = @ + n]
        BY <1>6 DEF Write
    <2>5. PipeWasWritten'
        BY <2>1, <2>2, <2>4 DEF TypeOK, PipeWasWritten
    <2>6. TypeOK'
        BY <1>6, <2>3, <2>4 DEF Write, TypeOK, shellVars, kernelVars, killVars
    <2> QED BY <2>5, <2>6
<1>7. ASSUME NEW s \in Shells, NEW st \in Streams, DrainRead(s, st) PROVE TypeInv'
    <2>1. PICK n \in 1..pipe[s][st] :
              /\ pipe' = [pipe EXCEPT ![s][st] = @ - n]
              /\ buf' = [buf EXCEPT ![s][st] = AppendCapped(buf[s][st], n, trunc[s][st]).len]
              /\ trunc' = [trunc EXCEPT ![s][st] = AppendCapped(buf[s][st], n, trunc[s][st]).trunc]
        BY <1>7 DEF DrainRead
    <2>2. /\ pipe[s][st] \in 0..MaxWritten /\ buf[s][st] \in 0..OutputCap /\ trunc[s][st] \in BOOLEAN
          /\ pipe[s][st] <= written[s][st] /\ written[s][st] \in 0..MaxWritten
        BY DEF TypeOK, PipeWasWritten
    <2>3. pipe[s][st] - n \in 0..MaxWritten /\ pipe[s][st] - n <= written[s][st]
        BY <2>2, ConstantsAssumption
    <2> DEFINE r == AppendCapped(buf[s][st], n, trunc[s][st])
    <2>4. r.len \in 0..OutputCap /\ r.trunc \in BOOLEAN
        BY <2>2, ConstantsAssumption DEF AppendCapped
    <2>5. /\ pipe' = [pipe EXCEPT ![s][st] = @ - n]
          /\ buf' = [buf EXCEPT ![s][st] = r.len] /\ trunc' = [trunc EXCEPT ![s][st] = r.trunc]
        BY <2>1
    <2> HIDE DEF r
    <2>6. pipe' \in [Shells -> [Streams -> 0..MaxWritten]]
        BY <2>3, <2>5 DEF TypeOK
    <2>7. buf' \in [Shells -> [Streams -> 0..OutputCap]] /\ trunc' \in [Shells -> [Streams -> BOOLEAN]]
        BY <2>4, <2>5 DEF TypeOK
    <2>8. UNCHANGED <<shellVars, drain, pipeOpen, written, wpc, kernelVars, killVars>>
        BY <1>7 DEF DrainRead
    <2>9. TypeOK'
        BY <2>6, <2>7, <2>8 DEF TypeOK, shellVars, kernelVars, killVars
    <2>10. PipeWasWritten'
        <3>1. ASSUME NEW q \in Shells, NEW u \in Streams PROVE pipe'[q][u] <= written'[q][u]
            <4>1. CASE q = s /\ u = st
                BY <4>1, <2>3, <2>5, <2>8 DEF TypeOK
            <4>2. CASE ~(q = s /\ u = st)
                <5>1. pipe'[q][u] = pipe[q][u]
                    BY <4>2, <2>5 DEF TypeOK
                <5> QED BY <5>1, <2>8 DEF PipeWasWritten
            <4> QED BY <4>1, <4>2
        <3> QED BY <3>1 DEF PipeWasWritten
    <2> QED BY <2>9, <2>10
<1>8. ASSUME NEW s \in Shells, NEW st \in Streams, DrainEnds(s, st) PROVE TypeInv'
    BY <1>1, <1>8 DEF DrainEnds, TypeOK, shellVars, kernelVars, killVars
<1>9. ASSUME NEW s \in Shells, Waiter(s) PROVE TypeInv'
    BY <1>1, <1>9 DEF Waiter, WaitReaps, WaitClosesPipes, SetExit, TypeOK, shellVars, outputVars, kernelVars, killVars
<1>10. ASSUME NEW c \in Callers, KillShell(c) PROVE TypeInv'
    <2>1. CASE KillSignal(c)
        <3>1. bash' \in [Shells -> {"none", "running", "zombie", "reaped"}] /\ kids' \in [Shells -> BOOLEAN]
            <4>1. CASE UNCHANGED <<bash, kids>>
                BY <4>1 DEF TypeOK
            <4>2. CASE SignalGroup(pgid[target[c]])
                BY <4>2 DEF SignalGroup, TypeOK
            <4> QED BY <2>1, <4>1, <4>2 DEF KillSignal
        <3> QED BY <1>1, <2>1, <3>1 DEF KillSignal, TypeOK, shellVars, outputVars
    <2>2. ASSUME NEW s \in Shells, KillGet(c, s) PROVE TypeInv'
        BY <1>1, <2>2 DEF KillGet, TypeOK, shellVars, outputVars, kernelVars
    <2>3. CASE KillRemove(c)
        BY <1>1, <2>3 DEF KillRemove, TypeOK, outputVars, kernelVars
    <2> QED BY <1>10, <2>1, <2>2, <2>3 DEF KillShell
<1>11. CASE UNCHANGED vars
    BY <1>1, <1>11 DEF vars, TypeOK, shellVars, outputVars, kernelVars, killVars
<1> QED
    BY <1>2, <1>3, <1>4, <1>5, <1>6, <1>7, <1>8, <1>9, <1>10, <1>11 DEF Next, Handler, Group, Drainer

\* Every variable of the background shells keeps its type; in particular no
\* buffer outgrows the cap (shell_registry.go appendCapped).
THEOREM ShellTypes == Spec => []TypeOK
<1>1. TypeInv => TypeOK
    BY DEF TypeInv
<1> QED
    BY <1>1, InitTypeInv, StepTypeInv, PTL DEF Spec

-----------------------------------------------------------------------------
(* Foreground commands.                                                    *)

\* The command runs while the caller is in Wait; its status is set when it
\* ends and taken over into the error when it is reaped.
StatusOrder ==
    /\ main = "start" => leader = "none" /\ runErr = "nil"
    /\ leader = "none" => status = "none" /\ group = "none"
    /\ leader = "running" => main = "wait" /\ status = "none"
    /\ leader \in {"zombie", "reaped"} => status # "none"
    /\ main = "wait" => leader \in {"running", "zombie"} /\ runErr = "nil"
    /\ main \in {"watcher", "drain", "check", "returned"} => leader \in {"none", "reaped"}
    /\ runErr = "exit" => status \in {"1", "2", "signal", "killed"}
    /\ leader = "reaped" /\ status # "0" => runErr # "nil"

\* A pipe closed under the copier leaves an error: the watcher's, as long as
\* its verdict is on offer, and then that of Run.
PipeOrder ==
    /\ main = "start" => copier = "off"
    /\ main \in {"wait", "watcher", "drain"} => copier # "off"
    /\ main \in {"check", "returned"} => copier # "copying" /\ (copier = "off" => runErr # "nil")
    /\ copier = "closed" => \/ main \in {"wait", "watcher"} /\ watch = "offering"
                            \/ main \in {"drain", "check", "returned"} /\ runErr # "nil"

CmdInv ==
    /\ CommandTypeOK /\ StatusOrder /\ PipeOrder
    /\ SuccessHasWholeOutput /\ KilledIsNotAnExit

\* What each caller makes of an outcome: 0 or "formatted" only if Run had no
\* error or the command's own status was 0; and no status at all for one the
\* deadline killed.
LEMMA Classification ==
    ASSUME NEW timedOut \in BOOLEAN, CommandTypeOK, NEW x,
           x \in {BashExitCode(timedOut), VerifyExitCode(timedOut),
                  LintOutcome(timedOut), FormatOutcome(timedOut)}
    PROVE  /\ x \in Exits \/ (runErr = "exit" /\ status = "none")
           /\ x \in {"0", "formatted"} /\ ~timedOut => runErr = "nil" \/ (runErr = "exit" /\ status = "0")
           /\ timedOut /\ runErr # "nil" => x \in {"124", "error"}
           /\ ~timedOut /\ runErr # "nil" /\ status = "killed" => x \in {"-1", "findings", "unformatted", "error"}
BY DEF Exits, CommandTypeOK, BashExitCode, VerifyExitCode, LintOutcome, FormatOutcome, ExitCode

\* Initially nothing has run.
LEMMA InitCmdInv == CommandInit => CmdInv
BY DEF CommandInit, CmdInv, CommandTypeOK, StatusOrder, PipeOrder, SuccessHasWholeOutput,
       KilledIsNotAnExit, NoResult, Exits, Tools, GroupAlive

\* Every step of the command, its children, the context, the watcher, the
\* copier and the caller preserves it.
LEMMA StepCmdInv == CmdInv /\ [CommandNext]_(commandVars) => CmdInv'
<1> SUFFICES ASSUME CmdInv, [CommandNext]_(commandVars) PROVE CmdInv'
    OBVIOUS
<1> USE DEF CmdInv, CommandTypeOK, StatusOrder, PipeOrder, SuccessHasWholeOutput, KilledIsNotAnExit, GroupAlive
<1>1. CASE RunStarts
    BY <1>1 DEF RunStarts
<1>2. CASE RunStartFails
    BY <1>2 DEF RunStartFails
<1>3. CASE LeaveKids
    BY <1>3 DEF LeaveKids
<1>4. CASE CommandEnds
    BY <1>4 DEF CommandEnds
<1>5. CASE KidsEnd
    BY <1>5 DEF KidsEnd
<1>6. CASE DeadlinePasses \/ RequestCancelled
    BY <1>6 DEF DeadlinePasses, RequestCancelled
<1>7. CASE WatchFires
    BY <1>7 DEF WatchFires
<1>8. CASE Cancel
    BY <1>8 DEF Cancel
<1>9. CASE WatchTimerFires
    BY <1>9 DEF WatchTimerFires
<1>10. CASE CopierEOF
    BY <1>10 DEF CopierEOF
<1>11. CASE RunReaps
    BY <1>11 DEF RunReaps
<1>12. CASE TakeVerdict
    BY <1>12 DEF TakeVerdict
<1>13. CASE Drained
    BY <1>13 DEF Drained
<1>14. CASE DrainTimerFires
    BY <1>14 DEF DrainTimerFires
<1>15. CASE Report
    <2> DEFINE timedOut == ctx = "deadline"
    <2>1. PICK x \in {BashExitCode(timedOut), VerifyExitCode(timedOut),
                      LintOutcome(timedOut), FormatOutcome(timedOut)} :
              result' = [timedOut |-> timedOut, exit |-> x]
        BY <1>15 DEF Report, Tools
    <2>2. /\ main = "check" /\ main' = "returned"
          /\ UNCHANGED <<tool, ctx, leader, status, group, watch, copier, timer, runErr>>
        BY <1>15 DEF Report
    <2>3. /\ x \in Exits
          /\ x \in {"0", "formatted"} /\ ~timedOut => runErr = "nil"
          /\ timedOut /\ runErr # "nil" => x \in {"124", "error"}
          /\ ~timedOut /\ runErr # "nil" /\ status = "killed" => x \in {"-1", "findings", "unformatted", "error"}
        <3> HIDE DEF timedOut, KilledIsNotAnExit, SuccessHasWholeOutput
        <3>1. timedOut \in BOOLEAN
            BY DEF timedOut
        <3>2. /\ x \in Exits \/ (runErr = "exit" /\ status = "none")
              /\ x \in {"0", "formatted"} /\ ~timedOut => runErr = "nil" \/ (runErr = "exit" /\ status = "0")
              /\ timedOut /\ runErr # "nil" => x \in {"124", "error"}
              /\ ~timedOut /\ runErr # "nil" /\ status = "killed" => x \in {"-1", "findings", "unformatted", "error"}
            BY <2>1, <3>1, Classification
        <3>3. runErr = "exit" => status \in {"1", "2", "signal", "killed"}
            OBVIOUS
        <3> QED BY <3>2, <3>3
    <2>4. CommandTypeOK'
        BY <2>1, <2>2, <2>3
    <2>5. StatusOrder' /\ PipeOrder'
        BY <2>2
    <2>6. SuccessHasWholeOutput'
        BY <2>1, <2>2, <2>3
    <2>7. KilledIsNotAnExit'
        BY <2>1, <2>2, <2>3
    <2> QED BY <2>4, <2>5, <2>6, <2>7
<1>16. CASE UNCHANGED commandVars
    BY <1>16 DEF commandVars
<1> QED
    BY <1>1, <1>2, <1>3, <1>4, <1>5, <1>6, <1>7, <1>8, <1>9, <1>10, <1>11, <1>12, <1>13, <1>14, <1>15, <1>16
    DEF CommandNext, Command, Context, Watcher, Caller

\* The variables of a foreground command keep their types.
THEOREM CommandTypes == CommandSpec => []CommandTypeOK
BY InitCmdInv, StepCmdInv, PTL DEF CommandSpec, CmdInv

\* SuccessHasWholeOutput: a pipe that WaitDelay closed under the copier never
\* ends in exit 0 without a timeout marker, or as formatted.
THEOREM SuccessIsWhole == CommandSpec => []SuccessHasWholeOutput
BY InitCmdInv, StepCmdInv, PTL DEF CommandSpec, CmdInv

\* KilledIsNotAnExit: a command that Cancel killed took its group along; each
\* caller reports the deadline as such, and none a cancelled command with an
\* exit status of its own.
THEOREM KillIsReported == CommandSpec => []KilledIsNotAnExit
BY InitCmdInv, StepCmdInv, PTL DEF CommandSpec, CmdInv
=============================================================================
