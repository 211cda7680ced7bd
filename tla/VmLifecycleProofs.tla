-------------------------- MODULE VmLifecycleProofs --------------------------
(***************************************************************************)
(* Proofs about VmLifecycle, for any number of vCPUs and callers, and      *)
(* about BootImage, what Create loads, for every amount of RAM and every   *)
(* size of the files.                                                      *)
(***************************************************************************)
EXTENDS VmLifecycle, BootImage, TLAPS

\* A function that is constant on the vCPUs has the type of its value.
LEMMA EachType == ASSUME NEW S, NEW v \in S PROVE Each(v) \in [Cpus -> S]
  BY DEF Each

\* The initial value of every variable indexed by vCPU.
LEMMA FreshTypes ==
    /\ Each("none") \in [Cpus -> VcpuPcs]
    /\ Each(FALSE) \in [Cpus -> BOOLEAN]
    /\ Each(0) \in [Cpus -> Tags]
    /\ Each([target |-> 0, tag |-> 0]) \in [Cpus -> [target : Cpus, tag : Tags]]
    /\ Each({}) \in [Cpus -> SUBSET Tags]
<1>1. "none" \in VcpuPcs /\ FALSE \in BOOLEAN
  BY DEF VcpuPcs
<1>2. 0 \in Tags /\ {} \in SUBSET Tags
  BY LifecycleAssumption DEF Tags
<1>3. [target |-> 0, tag |-> 0] \in [target : Cpus, tag : Tags]
  BY LifecycleAssumption DEF Cpus, Tags
<1> QED BY <1>1, <1>2, <1>3, EachType

\* Init establishes the types.
LEMMA InitType == Init => TypeOK
<1> USE LifecycleAssumption DEF Cpus, Handles, Tags
<1> SUFFICES ASSUME Init PROVE TypeOK
  OBVIOUS
<1>1. /\ vpc \in [Cpus -> VcpuPcs]
      /\ hvcpu \in [Cpus -> BOOLEAN] /\ pending \in [Cpus -> BOOLEAN]
      /\ bootPc \in [Cpus -> Tags] /\ bootX0 \in [Cpus -> Tags]
      /\ regPc \in [Cpus -> Tags] /\ regX0 \in [Cpus -> Tags]
      /\ req \in [Cpus -> [target : Cpus, tag : Tags]]
      /\ granted \in [Cpus -> SUBSET Tags]
  BY FreshTypes DEF Init
<1>2. /\ reg \subseteq Handles /\ vms \subseteq Handles /\ nextId \in 1..(MaxHandle + 1)
      /\ mutex \in Callers \cup {NoCaller}
      /\ cpc \in [Callers -> CallerPcs]
      /\ arg \in [Callers -> Handles \cup {0}]
      /\ \A c \in Callers : cpc[c] = "register" => arg[c] \in Handles
  BY DEF Init, CallerPcs
<1>3. /\ hv \in BOOLEAN /\ leaked \in BOOLEAN /\ ctx \in BOOLEAN /\ running \in BOOLEAN
      /\ rpc \in RunPcs
  BY Zenon DEF Init, RunPcs
<1>4. ri \in 0..N /\ onCount \in Tags /\ asked \subseteq Cpus /\ off \subseteq Cpus
  BY DEF Init
<1> QED BY <1>1, <1>2, <1>3, <1>4 DEF TypeOK

\* Every step keeps the types.
LEMMA NextType == TypeOK /\ [Next]_vars => TypeOK'
<1> USE LifecycleAssumption DEF Cpus, Handles, Tags
<1> SUFFICES ASSUME TypeOK, [Next]_vars PROVE TypeOK'
  OBVIOUS
<1> USE DEF TypeOK, CallerPcs, CreatePcs, BuildPcs, DestroyPcs, LockedPcs,
            RunPcs, VcpuPcs, BootPcs, GuestPcs,
            apiVars, hvVars, runVars, vcpuVars, bootVars, regVars, guestVars,
            Goto, Jump
<1>1. ASSUME NEW c \in Callers, CreateCall(c) PROVE TypeOK'
  BY <1>1 DEF CreateCall
<1>2. ASSUME NEW c \in Callers, NEW h \in Handles, DestroyCall(c, h) PROVE TypeOK'
  BY <1>2 DEF DestroyCall
<1>3. ASSUME NEW c \in Callers, CallerStep(c) PROVE TypeOK'
  <2>1. CASE HvCreateFails(c)
    BY <2>1 DEF HvCreateFails
  <2>2. CASE HvCreate(c)
    <3>1. /\ vpc' \in [Cpus -> VcpuPcs]
          /\ hvcpu' \in [Cpus -> BOOLEAN] /\ pending' \in [Cpus -> BOOLEAN]
          /\ bootPc' \in [Cpus -> Tags] /\ bootX0' \in [Cpus -> Tags]
          /\ regPc' \in [Cpus -> Tags] /\ regX0' \in [Cpus -> Tags]
          /\ req' \in [Cpus -> [target : Cpus, tag : Tags]]
          /\ granted' \in [Cpus -> SUBSET Tags]
      BY <2>2, FreshTypes DEF HvCreate
    <3>2. /\ hv' = TRUE /\ ctx' = TRUE /\ running' = FALSE /\ rpc' = "none" /\ ri' = 0
          /\ onCount' = 0 /\ asked' = {} /\ off' = {}
          /\ cpc' = [cpc EXCEPT ![c] = "setup"]
          /\ UNCHANGED <<reg, vms, nextId, mutex, arg, leaked>>
      BY <2>2 DEF HvCreate
    <3>3. hv' \in BOOLEAN /\ leaked' \in BOOLEAN /\ ctx' \in BOOLEAN /\ running' \in BOOLEAN
      BY <3>2, Zenon
    <3>4. rpc' \in RunPcs /\ ri' \in 0..N /\ onCount' \in Tags /\ asked' \subseteq Cpus /\ off' \subseteq Cpus
      BY <3>2
    <3>5. /\ cpc' \in [Callers -> CallerPcs]
          /\ \A d \in Callers : cpc'[d] = "register" => arg'[d] \in Handles
      BY <3>2
    <3>6. reg' \subseteq Handles /\ vms' \subseteq Handles /\ nextId' \in 1..(MaxHandle + 1)
          /\ mutex' \in Callers \cup {NoCaller} /\ arg' \in [Callers -> Handles \cup {0}]
      BY <3>2
    <3> QED BY <3>1, <3>3, <3>4, <3>5, <3>6
  <2>3. CASE SetupThrows(c)
    BY <2>3 DEF SetupThrows
  <2>4. CASE Setup(c)
    BY <2>4 DEF Setup
  <2>5. CASE Launch(c)
    BY <2>5 DEF Launch
  <2>6. CASE Insert(c)
    <3>1. nextId \in Handles /\ nextId' \in 1..(MaxHandle + 1)
      BY <2>6 DEF Insert
    <3> QED BY <2>6, <3>1 DEF Insert
  <2>7. CASE Register(c)
    BY <2>7 DEF Register
  <2>8. CASE Find(c)
    BY <2>8 DEF Find
  <2>9. CASE Stop(c)
    BY <2>9 DEF Stop
  <2>10. CASE JoinRunThread(c)
    BY <2>10 DEF JoinRunThread
  <2>11. CASE Reset(c)
    BY <2>11 DEF Reset
  <2>12. CASE HvDestroy(c)
    BY <2>12 DEF HvDestroy
  <2>13. CASE Erase(c)
    BY <2>13 DEF Erase
  <2>14. CASE UnwindHangs(c)
    BY <2>14 DEF UnwindHangs
  <2>15. CASE ResetHangs(c)
    BY <2>15 DEF ResetHangs
  <2>16. CASE EraseHangs(c)
    BY <2>16 DEF EraseHangs
  <2> QED BY <1>3, <2>1, <2>2, <2>3, <2>4, <2>5, <2>6, <2>7, <2>8, <2>9, <2>10, <2>11, <2>12, <2>13, <2>14, <2>15, <2>16 DEF CallerStep
<1>4. CASE RunStep
  <2>1. CASE RunStart
    BY <2>1 DEF RunStart
  <2>2. CASE RunSpawn
    <3>1. CASE ri < N
      <4>1. ri \in Cpus /\ ri + 1 \in 0..N
        BY <3>1
      <4> QED BY <2>2, <3>1, <4>1 DEF RunSpawn
    <3>2. CASE ~(ri < N)
      <4>1. 0 \in 0..N
        OBVIOUS
      <4> QED BY <2>2, <3>2, <4>1 DEF RunSpawn
    <3> QED BY <3>1, <3>2
  <2>3. CASE RunWait
    BY <2>3 DEF RunWait
  <2>4. CASE RunJoin
    <3>1. CASE ri < N
      <4>1. ri + 1 \in 0..N
        BY <3>1
      <4> QED BY <2>4, <3>1, <4>1 DEF RunJoin
    <3>2. CASE ~(ri < N)
      BY <2>4, <3>2 DEF RunJoin
    <3> QED BY <3>1, <3>2
  <2>5. CASE RunEnd
    BY <2>5 DEF RunEnd
  <2> QED BY <1>4, <2>1, <2>2, <2>3, <2>4, <2>5 DEF RunStep
<1>5. ASSUME NEW i \in Cpus, VcpuStep(i) PROVE TypeOK'
  <2>1. CASE VcpuCreate(i)
    BY <2>1 DEF VcpuCreate
  <2>2. CASE VcpuCreateFails(i)
    BY <2>2 DEF VcpuCreateFails
  <2>3. CASE VcpuSpin(i)
    BY <2>3 DEF VcpuSpin
  <2>4. CASE VcpuReadPc(i)
    BY <2>4 DEF VcpuReadPc
  <2>5. CASE VcpuReadX0(i)
    BY <2>5 DEF VcpuReadX0
  <2>6. CASE VcpuClear(i)
    BY <2>6 DEF VcpuClear
  <2>7. CASE VcpuSetup(i)
    BY <2>7 DEF VcpuSetup
  <2>8. CASE VcpuSetupFails(i)
    BY <2>8 DEF VcpuSetupFails
  <2>9. CASE VcpuLoop(i)
    BY <2>9 DEF VcpuLoop
  <2>10. CASE VcpuTeardown(i)
    BY <2>10 DEF VcpuTeardown
  <2>11. CASE ExitResume(i)
    BY <2>11 DEF ExitResume
  <2>12. CASE ExitFails(i)
    BY <2>12 DEF ExitFails
  <2>13. ASSUME NEW t \in Cpus, PsciCpuOn(i, t) PROVE TypeOK'
    <3>1. onCount' \in Tags /\ [target |-> t, tag |-> onCount'] \in [target : Cpus, tag : Tags]
      BY <2>13 DEF PsciCpuOn
    <3>2. asked' \subseteq Cpus /\ off' \subseteq Cpus
      BY <2>13 DEF PsciCpuOn
    <3>3. req' \in [Cpus -> [target : Cpus, tag : Tags]]
      BY <2>13, <3>1 DEF PsciCpuOn
    <3> QED BY <2>13, <3>1, <3>2, <3>3 DEF PsciCpuOn
  <2>14. CASE CpuOnStorePc(i)
    BY <2>14 DEF CpuOnStorePc
  <2>15. CASE CpuOnStoreX0(i)
    BY <2>15 DEF CpuOnStoreX0
  <2>16. CASE CpuOnStorePending(i)
    <3>1. req[i].target \in Cpus /\ req[i].tag \in Tags
      OBVIOUS
    <3>2. granted' \in [Cpus -> SUBSET Tags]
      BY <2>16, <3>1 DEF CpuOnStorePending
    <3> QED BY <2>16, <3>1, <3>2 DEF CpuOnStorePending
  <2>17. CASE PsciCpuOff(i)
    BY <2>17 DEF PsciCpuOff
  <2>18. CASE PsciSystemOff(i)
    BY <2>18 DEF PsciSystemOff
  <2>19. CASE ExitHangs(i)
    BY <2>19 DEF ExitHangs
  <2> QED BY <1>5, <2>1, <2>2, <2>3, <2>4, <2>5, <2>6, <2>7, <2>8, <2>9, <2>10, <2>11, <2>12, <2>13, <2>14, <2>15, <2>16, <2>17, <2>18, <2>19 DEF VcpuStep
<1>6. CASE UNCHANGED vars
  BY <1>6 DEF vars
<1> QED BY <1>1, <1>2, <1>3, <1>4, <1>5, <1>6 DEF Next

\* Every variable of the lifecycle model keeps its type.
THEOREM Typing == Spec => []TypeOK
  BY InitType, NextType, PTL DEF Spec

-----------------------------------------------------------------------------
(***************************************************************************)
(* The inductive invariant.  Who owns the VM: a Create that is building    *)
(* it, its entry in vms_, or the Destroy that holds mutex_.                *)
(***************************************************************************)
LiveDestroyPcs == {"stop", "join", "reset", "resetHung", "hvDestroy"}

\* mutex_ is held exactly by the Destroy between its lookup and its return.
LockInv ==
    \A c \in Callers :
        /\ cpc[c] \in LockedPcs <=> mutex = c
        /\ cpc[c] \in LockedPcs => arg[c] \in vms

\* A Create that is building its VM is alone with it.
BuildInv ==
    \A c \in Callers : cpc[c] \in BuildPcs =>
        /\ hv /\ ctx
        /\ \A d \in Callers : cpc[d] \in BuildPcs => d = c
        /\ \A d \in Callers : cpc[d] \notin LiveDestroyPcs
        /\ mutex = NoCaller => vms = {}
        /\ cpc[c] \in {"setup", "launch", "unwindHung"} <=> rpc = "none"

\* vms_ has one entry at most; the entry's VM is complete unless its Destroy
\* has got as far as the reset, and after hv_vm_destroy only a new Create or
\* one that threw can account for a hypervisor VM.
TableInv ==
    /\ \A g, h \in vms : g = h
    /\ (vms # {} /\ mutex = NoCaller) => ctx /\ hv /\ rpc # "none"
    /\ \A c \in Callers :
        /\ cpc[c] \in {"stop", "join", "reset", "resetHung"} => ctx /\ hv /\ rpc # "none"
        /\ cpc[c] \in {"reset", "resetHung", "hvDestroy"} => rpc = "done"
        /\ cpc[c] = "hvDestroy" => ~ctx /\ hv
        /\ (cpc[c] \in {"erase", "eraseHung"} /\ hv) => leaked \/ \E d \in Callers : cpc[d] \in BuildPcs
    /\ (hv /\ vms = {}) => leaked \/ \E d \in Callers : cpc[d] \in BuildPcs

\* The vCPU threads run_all has not spawned yet, and those it has joined.
RunInv ==
    /\ ~ctx => rpc \in {"none", "done"}
    /\ rpc \in {"none", "start"} => ri = 0 /\ \A i \in Cpus : vpc[i] = "none"
    /\ rpc = "spawn" => \A i \in Cpus : i >= ri => vpc[i] = "none"
    /\ rpc = "wait" => ri = 0
    /\ rpc = "join" => \A i \in Cpus : i < ri => vpc[i] = "exited"
    /\ rpc \in {"end", "done"} => \A i \in Cpus : vpc[i] = "exited"

\* A hypervisor vCPU has a thread that will destroy it.
VcpuInv == \A i \in Cpus : hvcpu[i] => Alive(i) /\ vpc[i] # "create"

IndInv == TypeOK /\ LockInv /\ BuildInv /\ TableInv /\ RunInv /\ VcpuInv

\* What a vCPU thread's step can do to the rest: it moves its own program
\* counter, never back to "none", and keeps its vCPU only while it is alive.
VcpuShape(i) ==
    /\ Alive(i)
    /\ \A j \in Cpus \ {i} : vpc'[j] = vpc[j] /\ hvcpu'[j] = hvcpu[j]
    /\ vpc'[i] \notin {"none", "create"}
    /\ hvcpu'[i] => vpc'[i] # "exited"
    /\ UNCHANGED <<reg, vms, nextId, mutex, cpc, arg, hv, leaked, ctx, rpc, ri>>

\* Every step of thread_func, the exits it handles included, has that shape.
LEMMA VcpuStepShape ==
    ASSUME TypeOK, VcpuInv, NEW i \in Cpus, VcpuStep(i) PROVE VcpuShape(i)
<1> USE DEF VcpuShape, VcpuInv, TypeOK, Alive, Jump, apiVars, hvVars, runVars
<1>1. CASE VcpuCreate(i)
  BY <1>1 DEF VcpuCreate
<1>2. CASE VcpuCreateFails(i)
  BY <1>2 DEF VcpuCreateFails
<1>3. CASE VcpuSpin(i)
  BY <1>3 DEF VcpuSpin
<1>4. CASE VcpuReadPc(i)
  BY <1>4 DEF VcpuReadPc
<1>5. CASE VcpuReadX0(i)
  BY <1>5 DEF VcpuReadX0
<1>6. CASE VcpuClear(i)
  BY <1>6 DEF VcpuClear
<1>7. CASE VcpuSetup(i)
  BY <1>7 DEF VcpuSetup
<1>8. CASE VcpuSetupFails(i)
  BY <1>8 DEF VcpuSetupFails
<1>9. CASE VcpuLoop(i)
  BY <1>9 DEF VcpuLoop
<1>10. CASE VcpuTeardown(i)
  BY <1>10 DEF VcpuTeardown
<1>11. CASE ExitResume(i)
  BY <1>11 DEF ExitResume
<1>12. CASE ExitFails(i)
  BY <1>12 DEF ExitFails
<1>13. ASSUME NEW t \in Cpus, PsciCpuOn(i, t) PROVE VcpuShape(i)
  BY <1>13 DEF PsciCpuOn
<1>14. CASE CpuOnStorePc(i)
  BY <1>14 DEF CpuOnStorePc
<1>15. CASE CpuOnStoreX0(i)
  BY <1>15 DEF CpuOnStoreX0
<1>16. CASE CpuOnStorePending(i)
  BY <1>16 DEF CpuOnStorePending
<1>17. CASE PsciCpuOff(i)
  BY <1>17 DEF PsciCpuOff
<1>18. CASE PsciSystemOff(i)
  BY <1>18 DEF PsciSystemOff
<1>19. CASE ExitHangs(i)
  BY <1>19 DEF ExitHangs
<1> QED BY <1>1, <1>2, <1>3, <1>4, <1>5, <1>6, <1>7, <1>8, <1>9, <1>10, <1>11, <1>12, <1>13, <1>14, <1>15, <1>16, <1>17, <1>18, <1>19 DEF VcpuStep

\* A vCPU thread's step keeps the invariant: its thread was spawned and has
\* not been joined, so run_all is between its two loops.
LEMMA VcpuStepInv ==
    ASSUME IndInv, TypeOK', NEW i \in Cpus, VcpuStep(i) PROVE IndInv'
<1>1. VcpuShape(i)
  BY VcpuStepShape DEF IndInv
<1>2. LockInv' /\ BuildInv' /\ TableInv'
  BY <1>1 DEF IndInv, VcpuShape, LockInv, BuildInv, TableInv
<1>3. RunInv'
  BY <1>1, LifecycleAssumption DEF IndInv, VcpuShape, RunInv, Alive, TypeOK, Cpus
<1>4. VcpuInv'
  BY <1>1 DEF IndInv, VcpuShape, VcpuInv, Alive
<1> QED BY <1>2, <1>3, <1>4 DEF IndInv

\* A step of run_all keeps the invariant.
LEMMA RunStepInv ==
    ASSUME IndInv, TypeOK', RunStep PROVE IndInv'
<1> USE LifecycleAssumption DEF IndInv, TypeOK, Cpus, apiVars, hvVars, vcpuVars, runVars
<1>1. CASE RunStart
  <2>1. rpc' # "none" /\ rpc # "none" /\ UNCHANGED <<reg, vms, nextId, mutex, cpc, arg, hv, leaked, ctx, ri, vpc, hvcpu>>
    BY <1>1 DEF RunStart
  <2>2. LockInv' /\ BuildInv'
    BY <2>1 DEF LockInv, BuildInv
  <2>3. TableInv'
    BY <2>1, <1>1 DEF TableInv, RunStart
  <2>4. RunInv'
    BY <2>1, <1>1 DEF RunInv, RunStart
  <2>5. VcpuInv'
    BY <2>1, <1>1 DEF VcpuInv, Alive, RunInv, RunStart
  <2> QED BY <2>2, <2>3, <2>4, <2>5
<1>2. CASE RunSpawn
  <2>1. rpc' # "none" /\ rpc # "none" /\ UNCHANGED <<reg, vms, nextId, mutex, cpc, arg, hv, leaked, ctx, hvcpu>>
    BY <1>2 DEF RunSpawn
  <2>2. LockInv' /\ BuildInv'
    BY <2>1 DEF LockInv, BuildInv
  <2>3. TableInv'
    BY <2>1, <1>2 DEF TableInv, RunSpawn
  <2>4. RunInv'
    BY <2>1, <1>2 DEF RunInv, RunSpawn
  <2>5. VcpuInv'
    BY <2>1, <1>2 DEF VcpuInv, Alive, RunInv, RunSpawn
  <2> QED BY <2>2, <2>3, <2>4, <2>5
<1>3. CASE RunWait
  <2>1. rpc' # "none" /\ rpc # "none" /\ UNCHANGED <<reg, vms, nextId, mutex, cpc, arg, hv, leaked, ctx, vpc, hvcpu>>
    BY <1>3 DEF RunWait
  <2>2. LockInv' /\ BuildInv'
    BY <2>1 DEF LockInv, BuildInv
  <2>3. TableInv'
    BY <2>1, <1>3 DEF TableInv, RunWait
  <2>4. RunInv'
    BY <2>1, <1>3 DEF RunInv, RunWait
  <2>5. VcpuInv'
    BY <2>1, <1>3 DEF VcpuInv, Alive, RunInv, RunWait
  <2> QED BY <2>2, <2>3, <2>4, <2>5
<1>4. CASE RunJoin
  <2>1. rpc' # "none" /\ rpc # "none" /\ UNCHANGED <<reg, vms, nextId, mutex, cpc, arg, hv, leaked, ctx, vpc, hvcpu>>
    BY <1>4 DEF RunJoin
  <2>2. LockInv' /\ BuildInv'
    BY <2>1 DEF LockInv, BuildInv
  <2>3. TableInv'
    BY <2>1, <1>4 DEF TableInv, RunJoin
  <2>4. RunInv'
    <3>1. CASE ri < N
      BY <2>1, <3>1, <1>4 DEF RunInv, RunJoin
    <3>2. CASE ~(ri < N)
      <4>1. \A i \in Cpus : i < ri /\ vpc[i] = "exited"
        BY <3>2, <1>4 DEF RunInv, RunJoin
      <4> QED BY <2>1, <3>2, <4>1, <1>4 DEF RunInv, RunJoin
    <3> QED BY <3>1, <3>2
  <2>5. VcpuInv'
    BY <2>1, <1>4 DEF VcpuInv, Alive, RunInv, RunJoin
  <2> QED BY <2>2, <2>3, <2>4, <2>5
<1>5. CASE RunEnd
  <2>1. rpc' # "none" /\ rpc # "none" /\ UNCHANGED <<reg, vms, nextId, mutex, cpc, arg, hv, leaked, ctx, vpc, hvcpu>>
    BY <1>5 DEF RunEnd
  <2>2. LockInv' /\ BuildInv'
    BY <2>1 DEF LockInv, BuildInv
  <2>3. TableInv'
    BY <2>1, <1>5 DEF TableInv, RunEnd
  <2>4. RunInv'
    BY <2>1, <1>5 DEF RunInv, RunEnd
  <2>5. VcpuInv'
    BY <2>1, <1>5 DEF VcpuInv, Alive, RunInv, RunEnd
  <2> QED BY <2>2, <2>3, <2>4, <2>5
<1> QED BY <1>1, <1>2, <1>3, <1>4, <1>5 DEF RunStep

\* A step of Create or Destroy keeps the invariant.
LEMMA CallerStepInv ==
    ASSUME IndInv, TypeOK', NEW c \in Callers, CallerStep(c) PROVE IndInv'
<1> USE LifecycleAssumption DEF IndInv, TypeOK, Goto, vcpuVars, runVars, hvVars,
        BuildPcs, LockedPcs, LiveDestroyPcs
<1>1. CASE HvCreateFails(c)
  <2>1. LockInv'
    BY <1>1 DEF LockInv, HvCreateFails
  <2>2. BuildInv'
    BY <1>1 DEF BuildInv, TableInv, LockInv, HvCreateFails
  <2>3. TableInv'
    BY <1>1 DEF BuildInv, TableInv, LockInv, HvCreateFails
  <2>4. RunInv'
    BY <1>1 DEF RunInv, BuildInv, TableInv, HvCreateFails
  <2>5. VcpuInv'
    BY <1>1 DEF VcpuInv, Alive, HvCreateFails
  <2> QED BY <2>1, <2>2, <2>3, <2>4, <2>5
<1>2. CASE HvCreate(c)
  <2>1. /\ cpc[c] = "hvCreate" /\ cpc' = [cpc EXCEPT ![c] = "setup"]
        /\ ~hv /\ hv' /\ ctx' /\ rpc' = "none" /\ ri' = 0
        /\ UNCHANGED <<vms, mutex, arg, leaked>>
    BY <1>2 DEF HvCreate
  <2>2. \A i \in Cpus : vpc'[i] = "none" /\ ~hvcpu'[i]
    BY <1>2 DEF HvCreate, Each
  <2>3. \A d \in Callers : cpc[d] \notin BuildPcs
    BY <2>1 DEF BuildInv
  <2>4. \A d \in Callers : cpc[d] \notin LiveDestroyPcs
    BY <2>1 DEF TableInv
  <2>5. LockInv'
    BY <2>1 DEF LockInv
  <2>6. BuildInv'
    BY <2>1, <2>3, <2>4 DEF BuildInv, TableInv
  <2>7. TableInv'
    BY <2>1, <2>3, <2>4 DEF TableInv
  <2>8. RunInv' /\ VcpuInv'
    BY <2>1, <2>2 DEF RunInv, VcpuInv, Alive
  <2> QED BY <2>5, <2>6, <2>7, <2>8
<1>3. CASE SetupThrows(c)
  <2>1. LockInv'
    BY <1>3 DEF LockInv, SetupThrows
  <2>2. BuildInv'
    BY <1>3 DEF BuildInv, TableInv, LockInv, SetupThrows
  <2>3. TableInv'
    BY <1>3 DEF BuildInv, TableInv, LockInv, SetupThrows
  <2>4. RunInv'
    BY <1>3 DEF RunInv, BuildInv, TableInv, SetupThrows
  <2>5. VcpuInv'
    BY <1>3 DEF VcpuInv, Alive, SetupThrows
  <2> QED BY <2>1, <2>2, <2>3, <2>4, <2>5
<1>4. CASE Setup(c)
  <2>1. LockInv'
    BY <1>4 DEF LockInv, Setup
  <2>2. BuildInv'
    BY <1>4 DEF BuildInv, TableInv, LockInv, Setup
  <2>3. TableInv'
    BY <1>4 DEF BuildInv, TableInv, LockInv, Setup
  <2>4. RunInv'
    BY <1>4 DEF RunInv, BuildInv, TableInv, Setup
  <2>5. VcpuInv'
    BY <1>4 DEF VcpuInv, Alive, Setup
  <2> QED BY <2>1, <2>2, <2>3, <2>4, <2>5
<1>5. CASE Launch(c)
  <2>1. LockInv'
    BY <1>5 DEF LockInv, Launch
  <2>2. BuildInv'
    BY <1>5 DEF BuildInv, TableInv, LockInv, Launch
  <2>3. TableInv'
    BY <1>5 DEF BuildInv, TableInv, LockInv, Launch
  <2>4. RunInv'
    BY <1>5 DEF RunInv, BuildInv, TableInv, Launch
  <2>5. VcpuInv'
    BY <1>5 DEF VcpuInv, Alive, Launch
  <2> QED BY <2>1, <2>2, <2>3, <2>4, <2>5
<1>6. CASE Insert(c)
  <2>1. LockInv'
    BY <1>6 DEF LockInv, Insert
  <2>2. BuildInv'
    BY <1>6 DEF BuildInv, TableInv, LockInv, Insert
  <2>3. TableInv'
    BY <1>6 DEF BuildInv, TableInv, LockInv, Insert
  <2>4. RunInv'
    BY <1>6 DEF RunInv, BuildInv, TableInv, Insert
  <2>5. VcpuInv'
    BY <1>6 DEF VcpuInv, Alive, Insert
  <2> QED BY <2>1, <2>2, <2>3, <2>4, <2>5
<1>7. CASE Register(c)
  <2>1. LockInv'
    BY <1>7 DEF LockInv, Register
  <2>2. BuildInv'
    BY <1>7 DEF BuildInv, TableInv, LockInv, Register
  <2>3. TableInv'
    BY <1>7 DEF BuildInv, TableInv, LockInv, Register
  <2>4. RunInv'
    BY <1>7 DEF RunInv, BuildInv, TableInv, Register
  <2>5. VcpuInv'
    BY <1>7 DEF VcpuInv, Alive, Register
  <2> QED BY <2>1, <2>2, <2>3, <2>4, <2>5
<1>8. CASE Find(c)
  <2>1. LockInv'
    BY <1>8 DEF LockInv, Find
  <2>2. BuildInv'
    BY <1>8 DEF BuildInv, TableInv, LockInv, Find
  <2>3. TableInv'
    BY <1>8 DEF BuildInv, TableInv, LockInv, Find
  <2>4. RunInv'
    BY <1>8 DEF RunInv, BuildInv, TableInv, Find
  <2>5. VcpuInv'
    BY <1>8 DEF VcpuInv, Alive, Find
  <2> QED BY <2>1, <2>2, <2>3, <2>4, <2>5
<1>9. CASE Stop(c)
  <2>1. LockInv'
    BY <1>9 DEF LockInv, Stop
  <2>2. BuildInv'
    BY <1>9 DEF BuildInv, TableInv, LockInv, Stop
  <2>3. TableInv'
    BY <1>9 DEF BuildInv, TableInv, LockInv, Stop
  <2>4. RunInv'
    BY <1>9 DEF RunInv, BuildInv, TableInv, Stop
  <2>5. VcpuInv'
    BY <1>9 DEF VcpuInv, Alive, Stop
  <2> QED BY <2>1, <2>2, <2>3, <2>4, <2>5
<1>10. CASE JoinRunThread(c)
  <2>1. LockInv'
    BY <1>10 DEF LockInv, JoinRunThread
  <2>2. BuildInv'
    BY <1>10 DEF BuildInv, TableInv, LockInv, JoinRunThread
  <2>3. TableInv'
    BY <1>10 DEF BuildInv, TableInv, LockInv, JoinRunThread
  <2>4. RunInv'
    BY <1>10 DEF RunInv, BuildInv, TableInv, JoinRunThread
  <2>5. VcpuInv'
    BY <1>10 DEF VcpuInv, Alive, JoinRunThread
  <2> QED BY <2>1, <2>2, <2>3, <2>4, <2>5
<1>11. CASE Reset(c)
  <2>1. LockInv'
    BY <1>11 DEF LockInv, Reset
  <2>2. BuildInv'
    BY <1>11 DEF BuildInv, TableInv, LockInv, Reset
  <2>3. TableInv'
    BY <1>11 DEF BuildInv, TableInv, LockInv, Reset
  <2>4. RunInv'
    BY <1>11 DEF RunInv, BuildInv, TableInv, Reset
  <2>5. VcpuInv'
    BY <1>11 DEF VcpuInv, Alive, Reset
  <2> QED BY <2>1, <2>2, <2>3, <2>4, <2>5
<1>12. CASE HvDestroy(c)
  <2>1. LockInv'
    BY <1>12 DEF LockInv, HvDestroy
  <2>2. BuildInv'
    BY <1>12 DEF BuildInv, TableInv, LockInv, HvDestroy
  <2>3. TableInv'
    BY <1>12 DEF BuildInv, TableInv, LockInv, HvDestroy, VcpuInv, RunInv, Alive
  <2>4. RunInv'
    BY <1>12 DEF RunInv, BuildInv, TableInv, HvDestroy
  <2>5. VcpuInv'
    BY <1>12 DEF VcpuInv, Alive, HvDestroy
  <2> QED BY <2>1, <2>2, <2>3, <2>4, <2>5
<1>13. CASE Erase(c)
  <2>1. LockInv'
    BY <1>13 DEF LockInv, Erase, TableInv
  <2>2. BuildInv'
    BY <1>13 DEF BuildInv, TableInv, LockInv, Erase
  <2>3. TableInv'
    BY <1>13 DEF BuildInv, TableInv, LockInv, Erase
  <2>4. RunInv'
    BY <1>13 DEF RunInv, BuildInv, TableInv, Erase
  <2>5. VcpuInv'
    BY <1>13 DEF VcpuInv, Alive, Erase
  <2> QED BY <2>1, <2>2, <2>3, <2>4, <2>5
<1>14. CASE UnwindHangs(c)
  <2>1. LockInv'
    BY <1>14 DEF LockInv, UnwindHangs
  <2>2. BuildInv'
    BY <1>14 DEF BuildInv, TableInv, LockInv, UnwindHangs
  <2>3. TableInv'
    BY <1>14 DEF BuildInv, TableInv, LockInv, UnwindHangs
  <2>4. RunInv'
    BY <1>14 DEF RunInv, BuildInv, TableInv, UnwindHangs
  <2>5. VcpuInv'
    BY <1>14 DEF VcpuInv, Alive, UnwindHangs
  <2> QED BY <2>1, <2>2, <2>3, <2>4, <2>5
<1>15. CASE ResetHangs(c)
  <2>1. LockInv'
    BY <1>15 DEF LockInv, ResetHangs
  <2>2. BuildInv'
    BY <1>15 DEF BuildInv, TableInv, LockInv, ResetHangs
  <2>3. TableInv'
    BY <1>15 DEF BuildInv, TableInv, LockInv, ResetHangs
  <2>4. RunInv'
    BY <1>15 DEF RunInv, BuildInv, TableInv, ResetHangs
  <2>5. VcpuInv'
    BY <1>15 DEF VcpuInv, Alive, ResetHangs
  <2> QED BY <2>1, <2>2, <2>3, <2>4, <2>5
<1>16. CASE EraseHangs(c)
  <2>1. LockInv'
    BY <1>16 DEF LockInv, EraseHangs
  <2>2. BuildInv'
    BY <1>16 DEF BuildInv, TableInv, LockInv, EraseHangs
  <2>3. TableInv'
    BY <1>16 DEF BuildInv, TableInv, LockInv, EraseHangs
  <2>4. RunInv'
    BY <1>16 DEF RunInv, BuildInv, TableInv, EraseHangs
  <2>5. VcpuInv'
    BY <1>16 DEF VcpuInv, Alive, EraseHangs
  <2> QED BY <2>1, <2>2, <2>3, <2>4, <2>5
<1> QED BY <1>1, <1>2, <1>3, <1>4, <1>5, <1>6, <1>7, <1>8, <1>9, <1>10, <1>11, <1>12, <1>13, <1>14, <1>15, <1>16 DEF CallerStep

\* A call of the API enters Create or Destroy and touches nothing else.
LEMMA CallInv ==
    ASSUME IndInv, TypeOK', NEW c \in Callers,
           CreateCall(c) \/ \E h \in Handles : DestroyCall(c, h)
    PROVE  IndInv'
<1>1. /\ cpc[c] = "idle" /\ cpc' = [cpc EXCEPT ![c] = cpc'[c]]
      /\ cpc'[c] \in {"hvCreate", "find"}
      /\ \A d \in Callers \ {c} : arg'[d] = arg[d]
      /\ UNCHANGED <<vms, mutex, hv, leaked, ctx, rpc, ri, vpc, hvcpu>>
  BY DEF CreateCall, DestroyCall, Goto, IndInv, TypeOK, hvVars, runVars, vcpuVars
<1> USE DEF IndInv, TypeOK, BuildPcs, LockedPcs, LiveDestroyPcs
<1>2. LockInv' /\ BuildInv'
  BY <1>1, LifecycleAssumption DEF LockInv, BuildInv
<1>3. TableInv'
  BY <1>1 DEF TableInv
<1>4. RunInv' /\ VcpuInv'
  BY <1>1 DEF RunInv, VcpuInv, Alive
<1> QED BY <1>2, <1>3, <1>4

\* The inductive invariant holds in every reachable state.
THEOREM Inductive == Spec => []IndInv
<1>1. Init => IndInv
  <2> SUFFICES ASSUME Init PROVE IndInv
    OBVIOUS
  <2>1. TypeOK
    BY InitType
  <2>2. /\ vms = {} /\ mutex = NoCaller /\ \A c \in Callers : cpc[c] = "idle"
        /\ ~hv /\ ~ctx /\ rpc = "none" /\ ri = 0
        /\ \A i \in Cpus : vpc[i] = "none" /\ ~hvcpu[i]
    BY DEF Init, Each
  <2>3. LockInv /\ BuildInv
    BY <2>2, LifecycleAssumption DEF LockInv, BuildInv, LockedPcs, BuildPcs
  <2>4. TableInv
    BY <2>2 DEF TableInv
  <2>5. RunInv /\ VcpuInv
    BY <2>2 DEF RunInv, VcpuInv
  <2> QED BY <2>1, <2>3, <2>4, <2>5 DEF IndInv
<1>2. IndInv /\ [Next]_vars => IndInv'
  <2> SUFFICES ASSUME IndInv, [Next]_vars PROVE IndInv'
    OBVIOUS
  <2>1. TypeOK'
    BY NextType DEF IndInv
  <2>2. CASE UNCHANGED vars
    BY <2>2 DEF vars, apiVars, hvVars, runVars, vcpuVars, bootVars, regVars, guestVars, IndInv,
       TypeOK, LockInv, BuildInv, TableInv, RunInv, VcpuInv, Alive
  <2>3. CASE Next
    BY <2>1, <2>3, CallInv, CallerStepInv, RunStepInv, VcpuStepInv DEF Next
  <2> QED BY <2>2, <2>3
<1> QED BY <1>1, <1>2, PTL DEF Spec

\* No thread of a VM outlives its VMContext: when Destroy drops the context,
\* and whenever there is none, the run thread and all vCPU threads have ended.
THEOREM UseAfterResetFree == Spec => []NoUseAfterReset
<1>1. IndInv => NoUseAfterReset
  <2> SUFFICES ASSUME IndInv, ~ctx \/ \E c \in Callers : cpc[c] \in {"reset", "resetHung", "unwindHung"}
               PROVE  rpc \in {"none", "done"} /\ \A i \in Cpus : ~Alive(i)
    BY DEF NoUseAfterReset
  <2>1. rpc \in {"none", "done"}
    BY DEF IndInv, TableInv, BuildInv, BuildPcs, RunInv
  <2> QED BY <2>1 DEF IndInv, RunInv, Alive
<1> QED BY <1>1, Inductive, PTL

\* When Destroy reaches hv_vm_destroy every vCPU created has been destroyed.
THEOREM HvDestroySafe == Spec => []VcpusGoneBeforeVm
<1>1. IndInv => VcpusGoneBeforeVm
  BY DEF IndInv, VcpusGoneBeforeVm, TableInv, RunInv, VcpuInv, Alive
<1> QED BY <1>1, Inductive, PTL

\* There is one VM at most, a settled handle has its context and hypervisor
\* VM, and only a Create that threw leaves a hypervisor VM without a handle.
THEOREM OneVm == Spec => []HvAccounted
<1>1. IndInv => HvAccounted
  BY DEF IndInv, HvAccounted, TableInv
<1> QED BY <1>1, Inductive, PTL

\* A stop request made once vCPU threads exist is never overwritten by
\* run_all's store of true.
THEOREM StopIsFinal == Spec => StopSticks
<1>1. IndInv /\ [Next]_vars
        => [(\E i \in Cpus : vpc[i] # "none") /\ ~running /\ ctx' => ~running']_vars
  <2> SUFFICES ASSUME IndInv, Next, NEW i \in Cpus, vpc[i] # "none", ~running
               PROVE  ~running'
    OBVIOUS
  <2>1. ~RunStart
    BY DEF RunStart, IndInv, RunInv
  <2>2. ASSUME NEW c \in Callers, CallerStep(c) PROVE ~running'
    BY <2>2 DEF CallerStep, HvCreateFails, HvCreate, SetupThrows, Setup, Launch, Insert,
       Register, Find, Stop, JoinRunThread, Reset, HvDestroy, Erase, UnwindHangs, ResetHangs, EraseHangs
  <2>3. CASE RunStep
    BY <2>1, <2>3 DEF RunStep, RunSpawn, RunWait, RunJoin, RunEnd
  <2>4. ASSUME NEW j \in Cpus, VcpuStep(j) PROVE ~running'
    BY <2>4 DEF VcpuStep, VcpuCreate, VcpuCreateFails, VcpuSpin, VcpuReadPc, VcpuReadX0,
       VcpuClear, VcpuSetup, VcpuSetupFails, VcpuLoop, VcpuTeardown, ExitResume, ExitHangs, ExitFails,
       PsciCpuOn, CpuOnStorePc, CpuOnStoreX0, CpuOnStorePending, PsciCpuOff, PsciSystemOff
  <2> QED BY <2>2, <2>3, <2>4 DEF Next, CreateCall, DestroyCall
<1> QED BY <1>1, Inductive, PTL DEF Spec, StopSticks

-----------------------------------------------------------------------------
(***************************************************************************)
(* CPU_ON, for a guest that asks for a secondary once.                     *)
(***************************************************************************)
\* vCPU i is carrying out a CPU_ON of vCPU t.
Storing(i, t) == vpc[i] \in {"storePc", "storeX0", "storePending"} /\ req[i].target = t

\* A secondary that has seen boot_pending.
Woken == {"readPc", "readX0", "clear", "setup"} \cup GuestPcs

\* The handshake of a secondary t that is asked for once: one call stores its
\* arguments, in order; they stay while boot_pending is set; the secondary
\* reads them before it clears it.
Handshake(t) ==
    /\ pending[t] \/ vpc[t] \in Woken => t \in asked /\ \A i \in Cpus : ~Storing(i, t)
    /\ \A i \in Cpus : Storing(i, t) =>
          /\ t \in asked /\ req[i].tag \in 1..onCount
          /\ vpc[i] # "storePc" => bootPc[t] = req[i].tag
          /\ vpc[i] = "storePending" => bootX0[t] = req[i].tag
    /\ \A i, j \in Cpus : Storing(i, t) /\ Storing(j, t) => i = j
    /\ pending[t] => bootPc[t] = bootX0[t] /\ bootPc[t] \in 1..onCount
    /\ vpc[t] \in {"readPc", "readX0", "clear"} => pending[t]
    /\ vpc[t] = "readX0" => regPc[t] = bootPc[t]
    /\ vpc[t] \in {"clear", "setup"} \cup GuestPcs => regPc[t] = regX0[t] /\ regPc[t] \in 1..onCount

BootInv == \A t \in Cpus \ {0} : Handshake(t)

\* What a step may do to the program counter of vCPU i when it leaves the boot
\* arguments alone.
Calm(i) ==
    \/ vpc'[i] = vpc[i]
    \/ vpc'[i] \notin Woken
    \/ vpc'[i] \in {"setup", "loop", "guest", "netLocked"} /\ (i = 0 \/ vpc[i] \in {"setup", "loop", "guest"})

\* Such a step keeps the handshake.
LEMMA CalmStep ==
    ASSUME NEW t \in Cpus \ {0}, Handshake(t), \A i \in Cpus : Calm(i),
           UNCHANGED <<bootPc, bootX0, pending, regPc, regX0, req, onCount, asked>>
    PROVE  Handshake(t)'
<1>1. t \in Cpus /\ t # 0 /\ Calm(t)
  OBVIOUS
<1>2. \A i \in Cpus : Storing(i, t)' => Storing(i, t) /\ vpc'[i] = vpc[i]
  BY DEF Storing, Calm, Woken, GuestPcs
<1>3. vpc'[t] \in Woken => vpc[t] \in Woken
  BY <1>1 DEF Calm, Woken, GuestPcs
<1>4. vpc'[t] \in {"readPc", "readX0", "clear"} => vpc'[t] = vpc[t]
  BY <1>1 DEF Calm, Woken, GuestPcs
<1>5. vpc'[t] \in {"clear", "setup"} \cup GuestPcs => vpc[t] \in {"clear", "setup"} \cup GuestPcs
  BY <1>1 DEF Calm, Woken, GuestPcs
<1> QED BY <1>2, <1>3, <1>4, <1>5 DEF Handshake

\* The steps of the API's callers and of run_all.
LEMMA CallerBoot ==
    ASSUME TypeOK, BootInv, NEW t \in Cpus \ {0},
           (\E c \in Callers : CreateCall(c) \/ CallerStep(c))
             \/ (\E c \in Callers, h \in Handles : DestroyCall(c, h)) \/ RunStep
    PROVE  Handshake(t)'
<1>1. CASE \E c \in Callers : HvCreate(c)
  <2>1. /\ \A i \in Cpus : vpc'[i] = "none" /\ ~pending'[i]
    BY <1>1 DEF HvCreate, Each
  <2>2. \A i \in Cpus : ~Storing(i, t)'
    BY <2>1 DEF Storing
  <2> QED BY <2>1, <2>2 DEF Handshake, Woken, GuestPcs
<1>2. CASE ~\E c \in Callers : HvCreate(c)
  <2>1. /\ UNCHANGED <<bootPc, bootX0, pending, regPc, regX0, req, onCount, asked>>
        /\ vpc' = vpc \/ RunSpawn
    BY <1>2 DEF CreateCall, CallerStep, HvCreateFails, SetupThrows, Setup, Launch, Insert,
       Register, Find, Stop, JoinRunThread, Reset, HvDestroy, Erase, UnwindHangs, ResetHangs, EraseHangs,
       DestroyCall, RunStep, RunStart,
       RunSpawn, RunWait, RunJoin, RunEnd, vcpuVars, bootVars, regVars, guestVars
  <2>2. \A i \in Cpus : vpc'[i] = vpc[i] \/ vpc'[i] = "create"
    BY <2>1 DEF RunSpawn, TypeOK
  <2>3. \A i \in Cpus : Calm(i)
    BY <2>2 DEF Calm, Woken, GuestPcs
  <2> QED BY <2>1, <2>3, CalmStep DEF BootInv
<1> QED BY <1>1, <1>2

\* The steps of a vCPU thread.
LEMMA VcpuBoot ==
    ASSUME Guest = "boot", TypeOK, BootInv, NEW t \in Cpus \ {0}, NEW i \in Cpus, VcpuStep(i)
    PROVE  Handshake(t)'
<1> DEFINE At(l) == vpc'[i] = l /\ \A j \in Cpus : j # i => vpc'[j] = vpc[j]
           Args == <<bootPc, bootX0, pending, regPc, regX0, req, onCount, asked>>
<1>1. \A l : Jump(i, l) => At(l)
  BY DEF Jump, TypeOK
<1>2. Handshake(t) /\ t \in Cpus /\ t # 0
  BY DEF BootInv
<1>3. CASE \/ VcpuCreate(i) \/ VcpuCreateFails(i) \/ VcpuSetup(i) \/ VcpuSetupFails(i) \/ VcpuLoop(i)
           \/ VcpuTeardown(i) \/ ExitResume(i) \/ ExitHangs(i) \/ ExitFails(i) \/ PsciCpuOff(i) \/ PsciSystemOff(i)
  <2>1. UNCHANGED Args
    BY <1>3 DEF VcpuCreate, VcpuCreateFails, VcpuSetup, VcpuSetupFails, VcpuLoop, VcpuTeardown,
       ExitResume, ExitHangs, ExitFails, PsciCpuOff, PsciSystemOff, bootVars, regVars, guestVars
  <2>2. \E l \in {"setup", "spin", "exited", "loop", "teardown", "guest", "netLocked"} :
           /\ Jump(i, l)
           /\ l \in {"setup", "loop", "guest", "netLocked"} => i = 0 \/ vpc[i] \in {"setup", "loop", "guest"}
    BY <1>3 DEF VcpuCreate, VcpuCreateFails, VcpuSetup, VcpuSetupFails, VcpuLoop, VcpuTeardown,
       ExitResume, ExitHangs, ExitFails, PsciCpuOff, PsciSystemOff
  <2>3. \A j \in Cpus : Calm(j)
    BY <1>1, <2>2 DEF Calm, Woken, GuestPcs
  <2> QED BY <1>2, <2>1, <2>3, CalmStep
<1>4. CASE VcpuSpin(i)
  <2>1. At("readPc") /\ vpc[i] = "spin" /\ pending[i] /\ UNCHANGED Args
    BY <1>1, <1>4 DEF VcpuSpin, bootVars, regVars, guestVars
  <2>2. \A j \in Cpus : Storing(j, t)' <=> Storing(j, t)
    BY <2>1 DEF Storing
  <2> QED BY <1>2, <2>1, <2>2 DEF Handshake, Woken, GuestPcs, Storing
<1>5. CASE VcpuReadPc(i)
  <2>1. /\ At("readX0") /\ vpc[i] = "readPc" /\ regPc'[i] = bootPc[i]
        /\ \A j \in Cpus : j # i => regPc'[j] = regPc[j]
        /\ UNCHANGED <<bootPc, bootX0, pending, regX0, req, onCount, asked>>
    BY <1>1, <1>5 DEF VcpuReadPc, bootVars, guestVars, TypeOK
  <2>2. \A j \in Cpus : Storing(j, t)' <=> Storing(j, t)
    BY <2>1 DEF Storing
  <2> QED BY <1>2, <2>1, <2>2 DEF Handshake, Woken, GuestPcs, Storing
<1>6. CASE VcpuReadX0(i)
  <2>1. /\ At("clear") /\ vpc[i] = "readX0" /\ regX0'[i] = bootX0[i]
        /\ \A j \in Cpus : j # i => regX0'[j] = regX0[j]
        /\ UNCHANGED <<bootPc, bootX0, pending, regPc, req, onCount, asked>>
    BY <1>1, <1>6 DEF VcpuReadX0, bootVars, guestVars, TypeOK
  <2>2. \A j \in Cpus : Storing(j, t)' <=> Storing(j, t)
    BY <2>1 DEF Storing
  <2> QED BY <1>2, <2>1, <2>2 DEF Handshake, Woken, GuestPcs, Storing
<1>7. CASE VcpuClear(i)
  <2>1. /\ At("setup") /\ vpc[i] = "clear" /\ pending'[i] = FALSE
        /\ \A j \in Cpus : j # i => pending'[j] = pending[j]
        /\ UNCHANGED <<bootPc, bootX0, regPc, regX0, req, onCount, asked>>
    BY <1>1, <1>7 DEF VcpuClear, regVars, guestVars, TypeOK
  <2>2. \A j \in Cpus : Storing(j, t)' <=> Storing(j, t)
    BY <2>1 DEF Storing
  <2> QED BY <1>2, <2>1, <2>2 DEF Handshake, Woken, GuestPcs, Storing
<1>8. ASSUME NEW u \in Cpus, PsciCpuOn(i, u) PROVE Handshake(t)'
  <2>1. /\ At("storePc") /\ vpc[i] = "guest" /\ u # 0 /\ u \notin asked
        /\ onCount' = onCount + 1 /\ asked' = asked \cup {u}
        /\ req'[i] = [target |-> u, tag |-> onCount + 1]
        /\ \A j \in Cpus : j # i => req'[j] = req[j]
        /\ UNCHANGED <<bootPc, bootX0, pending, regPc, regX0>>
    BY <1>1, <1>8 DEF PsciCpuOn, MayOn, bootVars, regVars, TypeOK
  <2>2. onCount \in Nat /\ onCount + 1 \in 1..(onCount + 1) /\ \A k \in 1..onCount : k \in 1..(onCount + 1)
    BY LifecycleAssumption DEF TypeOK, Tags
  <2>3. ~Storing(i, t) /\ \A j \in Cpus : j # i => (Storing(j, t)' <=> Storing(j, t))
    BY <2>1 DEF Storing
  <2>4. Storing(i, t)' <=> u = t
    BY <2>1 DEF Storing
  <2>5. u = t => ~pending[t] /\ vpc[t] \notin Woken /\ t # i /\ \A j \in Cpus : ~Storing(j, t)
    BY <1>2, <2>1 DEF Handshake, Woken, GuestPcs
  <2>6. (pending[t] \/ vpc[t] \in Woken => t \in asked /\ \A j \in Cpus : ~Storing(j, t))'
    BY <1>2, <2>1, <2>3, <2>4, <2>5 DEF Handshake, Woken, GuestPcs
  <2>7. ASSUME NEW j \in Cpus, Storing(j, t)'
        PROVE  /\ t \in asked' /\ req'[j].tag \in 1..onCount'
               /\ vpc'[j] # "storePc" => bootPc'[t] = req'[j].tag
               /\ vpc'[j] = "storePending" => bootX0'[t] = req'[j].tag
    <3>1. CASE j = i
      BY <2>1, <2>2, <2>4, <2>7, <3>1
    <3>2. CASE j # i
      BY <1>2, <2>1, <2>2, <2>3, <2>7, <3>2 DEF Handshake
    <3> QED BY <3>1, <3>2
  <2>8. (\A j, k \in Cpus : Storing(j, t) /\ Storing(k, t) => j = k)'
    BY <1>2, <2>3, <2>4, <2>5 DEF Handshake
  <2>9. (/\ pending[t] => bootPc[t] = bootX0[t] /\ bootPc[t] \in 1..onCount
         /\ vpc[t] \in {"readPc", "readX0", "clear"} => pending[t]
         /\ vpc[t] = "readX0" => regPc[t] = bootPc[t]
         /\ vpc[t] \in {"clear", "setup"} \cup GuestPcs
              => regPc[t] = regX0[t] /\ regPc[t] \in 1..onCount)'
    BY <1>2, <2>1, <2>2 DEF Handshake, GuestPcs
  <2> QED BY <2>6, <2>7, <2>8, <2>9 DEF Handshake
<1>9. CASE CpuOnStorePc(i)
  <2>1. /\ At("storeX0") /\ vpc[i] = "storePc" /\ bootPc'[req[i].target] = req[i].tag
        /\ \A j \in Cpus : j # req[i].target => bootPc'[j] = bootPc[j]
        /\ UNCHANGED <<bootX0, pending, regPc, regX0, req, onCount, asked>>
    BY <1>1, <1>9 DEF CpuOnStorePc, regVars, guestVars, TypeOK
  <2>2. \A j \in Cpus : Storing(j, t)' <=> Storing(j, t)
    BY <2>1 DEF Storing
  <2>3. req[i].target = t <=> Storing(i, t)
    BY <2>1 DEF Storing
  <2> QED BY <1>2, <2>1, <2>2, <2>3 DEF Handshake, Woken, GuestPcs
<1>10. CASE CpuOnStoreX0(i)
  <2>1. /\ At("storePending") /\ vpc[i] = "storeX0" /\ bootX0'[req[i].target] = req[i].tag
        /\ \A j \in Cpus : j # req[i].target => bootX0'[j] = bootX0[j]
        /\ UNCHANGED <<bootPc, pending, regPc, regX0, req, onCount, asked>>
    BY <1>1, <1>10 DEF CpuOnStoreX0, regVars, guestVars, TypeOK
  <2>2. \A j \in Cpus : Storing(j, t)' <=> Storing(j, t)
    BY <2>1 DEF Storing
  <2>3. req[i].target = t <=> Storing(i, t)
    BY <2>1 DEF Storing
  <2> QED BY <1>2, <2>1, <2>2, <2>3 DEF Handshake, Woken, GuestPcs
<1>11. CASE CpuOnStorePending(i)
  <2>1. /\ At("loop") /\ vpc[i] = "storePending" /\ pending'[req[i].target] = TRUE
        /\ \A j \in Cpus : j # req[i].target => pending'[j] = pending[j]
        /\ UNCHANGED <<bootPc, bootX0, regPc, regX0, req, onCount, asked>>
    BY <1>1, <1>11 DEF CpuOnStorePending, regVars, guestVars, TypeOK
  <2>2. ~Storing(i, t)' /\ \A j \in Cpus : j # i => (Storing(j, t)' <=> Storing(j, t))
    BY <2>1 DEF Storing
  <2>3. req[i].target = t <=> Storing(i, t)
    BY <2>1 DEF Storing
  <2> QED BY <1>2, <2>1, <2>2, <2>3 DEF Handshake, Woken, GuestPcs
<1> QED BY <1>3, <1>4, <1>5, <1>6, <1>7, <1>8, <1>9, <1>10, <1>11 DEF VcpuStep

\* With a guest that asks for each secondary once, as Linux does when it boots,
\* a secondary starts with the entry point and the context id of one CPU_ON
\* call, whichever vCPUs make the calls and however their stores interleave
\* with the loads of the target.
THEOREM BootArguments == ASSUME Guest = "boot" PROVE Spec => []BootArgsMatch
<1>1. Init => BootInv
  <2> SUFFICES ASSUME Init, NEW t \in Cpus \ {0} PROVE Handshake(t)
    BY DEF BootInv
  <2>1. \A i \in Cpus : vpc[i] = "none" /\ ~pending[i]
    BY DEF Init, Each
  <2>2. \A i \in Cpus : ~Storing(i, t)
    BY <2>1 DEF Storing
  <2> QED BY <2>1, <2>2 DEF Handshake, Woken, GuestPcs
<1>2. TypeOK /\ BootInv /\ [Next]_vars => BootInv'
  <2> SUFFICES ASSUME TypeOK, BootInv, [Next]_vars, NEW t \in Cpus \ {0} PROVE Handshake(t)'
    BY DEF BootInv, Cpus
  <2>1. CASE UNCHANGED vars
    BY <2>1 DEF vars, vcpuVars, bootVars, regVars, guestVars, BootInv, Handshake, Storing
  <2>2. CASE Next
    BY <2>2, CallerBoot, VcpuBoot DEF Next
  <2> QED BY <2>1, <2>2
<1>3. BootInv => BootArgsMatch
  BY DEF BootInv, Handshake, BootArgsMatch
<1> QED BY <1>1, <1>2, <1>3, Typing, PTL DEF Spec

-----------------------------------------------------------------------------
(***************************************************************************)
(* The boot image, for every amount of RAM and every size of the files.    *)
(***************************************************************************)
\* The copies made so far are the ones the configuration asks for, each made
\* by the step that stands for it in Create and within that step's limits.
Copies == {[what |-> "dtb", base |-> kGpaDtbLoad, size |-> cfg.dtb],
           [what |-> "kernel", base |-> kGpaKernelLoad, size |-> cfg.kernel],
           [what |-> "initrd", base |-> kGpaInitrdLoad, size |-> cfg.initrd]}

CopiesInv ==
    /\ wrote \subseteq Copies
    /\ wrote # {} => mapped
    /\ \A w \in wrote :
         /\ w.what = "dtb" => cfg.dtb <= 4 * MiB
         /\ w.what = "kernel" => cfg.kernel <= cfg.ram \div 2
         /\ w.what = "initrd" => cfg.initrd <= cfg.ram \div 4

\* Where Create is tells what it has made.
Has(what) == \E w \in wrote : w.what = what
OrderInv ==
    /\ at \in {"initrd", "dtb", "run"} => Has("kernel")
    /\ at \in {"dtb", "run"} /\ cfg.initrd > 0 => Has("initrd")
    /\ IF at = "run"
       THEN /\ Has("dtb")
            /\ tree = [initrd |-> InitrdRange(wrote), nodes |-> Nodes(devices)]
       ELSE tree = NoTree


\* The address map in numbers.
LEMMA MapValues ==
    /\ kGpaRamBase = 1073741824 /\ kGpaDtbLoad = 1073741824
    /\ kGpaKernelLoad = 1077936128 /\ kGpaInitrdLoad = 1207959552
    /\ kGpaUart0 = 150994944 /\ kGpaRtcBase = 151060480
    /\ kGpaVirtioBase = 167772160 /\ kGpaVirtioStride = 512
    /\ kGpaGicDist = 134217728 /\ kGpaGicRedist = 134873088
    /\ MiB = 1048576
BY SMT DEF kGpaRamBase, kGpaDtbLoad, kGpaKernelLoad, kGpaInitrdLoad, kGpaUart0, kGpaRtcBase,
       kGpaVirtioBase, kGpaVirtioStride, kGpaGicDist, kGpaGicRedist, MiB

\* The addresses and the interrupts of the virtio devices in numbers.
LEMMA VirtioValues ==
    /\ kGpaVirtioConsole = 167772160 /\ kGpaVirtioBlock = 167772672 /\ kGpaVirtioNet = 167773184
    /\ kGpaVirtioGpu = 167773696 /\ kGpaVirtioKeyboard = 167774208 /\ kGpaVirtioTablet = 167774720
BY SMT, MapValues DEF kGpaVirtioConsole, kGpaVirtioBlock, kGpaVirtioNet, kGpaVirtioGpu,
       kGpaVirtioKeyboard, kGpaVirtioTablet

\* The handler's windows follow each other without a gap, in table order.
LEMMA WindowBase ==
    ASSUME NEW k \in 1..6
    PROVE  Windows[k].base = 167772160 + (k - 1) * 512
<1>1. k = 1 \/ k = 2 \/ k = 3 \/ k = 4 \/ k = 5 \/ k = 6
  OBVIOUS
<1> QED
  BY <1>1, VirtioValues DEF Windows

\* handle_mmio sends every address of a window to that window's device, or to
\* nobody when the device does not exist.
LEMMA RouteToDevice ==
    ASSUME NEW k \in 1..6, NEW o \in 0..511
    PROVE  Route(Windows[k].base + o)
             = IF Windows[k].device \in devices THEN Windows[k].device ELSE "absent"
<1> DEFINE ipa == 167772160 + (k - 1) * 512 + o
<1>1. ipa \in Nat /\ ipa >= 167772160 /\ ipa < 167772160 + 6 * 512
  OBVIOUS
<1>2. Windows[k].base + o = ipa
  BY WindowBase
<1>3. ~In(ipa, kGpaUart0, 4096) /\ ~In(ipa, kGpaRtcBase, 4096)
  BY SMT, <1>1, MapValues DEF In
<1>4. ASSUME NEW l \in 1..6 PROVE In(ipa, Windows[l].base, kGpaVirtioStride) <=> l = k
  <2>1. In(ipa, Windows[l].base, kGpaVirtioStride)
          <=> ipa >= 167772160 + (l - 1) * 512 /\ ipa < 167772160 + (l - 1) * 512 + 512
    BY WindowBase, MapValues DEF In
  <2> QED
    BY <2>1
<1> HIDE DEF ipa
<1>5. Hits(ipa) = {k}
  BY <1>4 DEF Hits
<1>6. k <= k
  OBVIOUS
<1>7. (CHOOSE l \in Hits(ipa) : \A m \in Hits(ipa) : l <= m) = k
  BY <1>5, <1>6
<1>8. Route(ipa) = IF Windows[k].device \in devices THEN Windows[k].device ELSE "absent"
  BY <1>3, <1>5, <1>7 DEF Route
<1> QED
  BY <1>2, <1>8

\* The nodes of the tree in numbers.
LEMMA NodeValues ==
    ASSUME NEW devs, NEW n \in Nodes(devs)
    PROVE  /\ n \in [base : Nat, spi : Nat]
           /\ \/ n.base = 167772160 /\ n.spi = 16
              \/ n.base = 167772672 /\ n.spi = 17
              \/ n.base = 167773184 /\ n.spi = 19 /\ "net" \in devs
              \/ n.base = 167773696 /\ n.spi = 20 /\ "gpu" \in devs
              \/ n.base = 167774208 /\ n.spi = 21 /\ "keyboard" \in devs
              \/ n.base = 167774720 /\ n.spi = 22 /\ "tablet" \in devs
<1>1. \/ n = Node(kGpaVirtioConsole, kSpiConsole)
      \/ n = Node(kGpaVirtioBlock, kSpiBlock)
      \/ n = Node(kGpaVirtioNet, kSpiNet) /\ "net" \in devs
      \/ n = Node(kGpaVirtioGpu, kSpiGpu) /\ "gpu" \in devs
      \/ n = Node(kGpaVirtioKeyboard, kSpiKeyboard) /\ "keyboard" \in devs
      \/ n = Node(kGpaVirtioTablet, kSpiTablet) /\ "tablet" \in devs
  BY DEF Nodes, VirtioAlways, VirtioOptional
<1>2. /\ kSpiConsole = 16 /\ kSpiBlock = 17 /\ kSpiNet = 19
      /\ kSpiGpu = 20 /\ kSpiKeyboard = 21 /\ kSpiTablet = 22
  BY DEF kSpiConsole, kSpiBlock, kSpiNet, kSpiGpu, kSpiKeyboard, kSpiTablet
<1> QED
  BY <1>1, <1>2, VirtioValues DEF Node

\* Which devices there are once Create has made them: the console, the block
\* device if an image is configured, and perhaps the network device.
DevicesInv == at \notin {"memory", "devices", "thrown"} =>
                 "console" \in devices /\ ("block" \in devices <=> cfg.image)

ImageInv == ImageTypeOK /\ CopiesInv /\ OrderInv /\ DevicesInv

\* Create starts with nothing made.
LEMMA ImageInitInv == ImageInit => ImageInv
<1> SUFFICES ASSUME NEW c \in Configs, Start(c) PROVE ImageInv
  BY DEF ImageInit
<1> QED
  BY DEF Start, ImageInv, ImageTypeOK, CopiesInv, OrderInv, DevicesInv, NoTree, Steps

\* A further copy that is made within its limit keeps the copies in order.
Within(w) == /\ w.what = "dtb" => cfg.dtb <= 4 * MiB
             /\ w.what = "kernel" => cfg.kernel <= cfg.ram \div 2
             /\ w.what = "initrd" => cfg.initrd <= cfg.ram \div 4

\* The step that the three copying actions share.
LEMMA AddCopy ==
    ASSUME ImageTypeOK, CopiesInv, mapped, NEW w \in Copies, Within(w),
           wrote' = wrote \cup {w}, UNCHANGED <<cfg, mapped>>
    PROVE  CopiesInv' /\ wrote' \in SUBSET [what : {"dtb", "kernel", "initrd"}, base : Nat, size : Nat]
<1>1. kGpaDtbLoad \in Nat /\ kGpaKernelLoad \in Nat /\ kGpaInitrdLoad \in Nat
  BY SMT, MapValues
<1>2. cfg.dtb \in Nat /\ cfg.kernel \in Nat /\ cfg.initrd \in Nat
  BY DEF ImageTypeOK, Configs
<1>3. Copies \in SUBSET [what : {"dtb", "kernel", "initrd"}, base : Nat, size : Nat]
  BY <1>1, <1>2 DEF Copies
<1>4. Copies' = Copies
  BY DEF Copies
<1>5. \A x \in wrote' : Within(x)
  BY DEF CopiesInv, Within
<1>6. CopiesInv'
  BY <1>4, <1>5 DEF CopiesInv, Within
<1> QED
  BY <1>3, <1>6 DEF ImageTypeOK

\* Every step of Create keeps the copies within their limits and in order.
LEMMA ImageNextInv == ImageInv /\ [ImageNext]_imageVars => ImageInv'
<1> SUFFICES ASSUME ImageInv, [ImageNext]_imageVars PROVE ImageInv'
  OBVIOUS
<1>1. CASE MapRam
  BY <1>1 DEF MapRam, ImageInv, ImageTypeOK, CopiesInv, OrderInv, DevicesInv, Copies, Has, Steps
<1>2. CASE CreateDevices
  BY <1>2 DEF CreateDevices, ImageInv, ImageTypeOK, CopiesInv, OrderInv, DevicesInv, Copies, Has, Steps
<1>3. CASE LoadKernel
  <2> DEFINE w == [what |-> "kernel", base |-> kGpaKernelLoad, size |-> cfg.kernel]
  <2>1. wrote' = wrote \cup {w} /\ UNCHANGED <<cfg, mapped, devices, tree>>
    BY <1>3 DEF LoadKernel, Copy
  <2>2. w \in Copies /\ w.what = "kernel"
    BY DEF Copies
  <2>3. mapped /\ Within(w)
    BY <1>3 DEF LoadKernel, Mapped, Fits, Within
  <2> HIDE DEF w
  <2>4. CopiesInv' /\ wrote' \in SUBSET [what : {"dtb", "kernel", "initrd"}, base : Nat, size : Nat]
    BY <2>1, <2>2, <2>3, AddCopy DEF ImageInv
  <2>5. at = "kernel" /\ at' \in {"initrd", "thrown"}
    BY <1>3 DEF LoadKernel
  <2>6. ImageTypeOK'
    BY <2>1, <2>4, <2>5 DEF ImageInv, ImageTypeOK, Steps
  <2>7. OrderInv'
    BY <2>1, <2>2, <2>5 DEF ImageInv, OrderInv, Has, NoTree
  <2>8. DevicesInv'
    BY <2>1, <2>5 DEF ImageInv, DevicesInv
  <2> QED
    BY <2>4, <2>6, <2>7, <2>8 DEF ImageInv
<1>4. CASE NoInitrd
  BY <1>4 DEF NoInitrd, ImageInv, ImageTypeOK, CopiesInv, OrderInv, DevicesInv, Copies, Has, Steps
<1>5. CASE LoadInitrd
  <2> DEFINE w == [what |-> "initrd", base |-> kGpaInitrdLoad, size |-> cfg.initrd]
  <2>1. wrote' = wrote \cup {w} /\ UNCHANGED <<cfg, mapped, devices, tree>>
    BY <1>5 DEF LoadInitrd, Copy
  <2>2. w \in Copies /\ w.what = "initrd"
    BY DEF Copies
  <2>3. mapped /\ Within(w)
    BY <1>5 DEF LoadInitrd, Mapped, Fits, Within
  <2> HIDE DEF w
  <2>4. CopiesInv' /\ wrote' \in SUBSET [what : {"dtb", "kernel", "initrd"}, base : Nat, size : Nat]
    BY <2>1, <2>2, <2>3, AddCopy DEF ImageInv
  <2>5. at = "initrd" /\ at' = "dtb"
    BY <1>5 DEF LoadInitrd
  <2>6. ImageTypeOK'
    BY <2>1, <2>4, <2>5 DEF ImageInv, ImageTypeOK, Steps
  <2>7. OrderInv'
    BY <2>1, <2>2, <2>5 DEF ImageInv, OrderInv, Has, NoTree
  <2>8. DevicesInv'
    BY <2>1, <2>5 DEF ImageInv, DevicesInv
  <2> QED
    BY <2>4, <2>6, <2>7, <2>8 DEF ImageInv
<1>6. CASE GenerateDtb
  <2> DEFINE w == [what |-> "dtb", base |-> kGpaDtbLoad, size |-> cfg.dtb]
  <2>1. wrote' = wrote \cup {w} /\ UNCHANGED <<cfg, mapped, devices>>
    BY <1>6 DEF GenerateDtb, Copy
  <2>2. w \in Copies /\ w.what = "dtb"
    BY DEF Copies
  <2>3. mapped /\ cfg.dtb <= kGpaKernelLoad - kGpaDtbLoad
    BY <1>6 DEF GenerateDtb, Mapped
  <2>4. cfg.dtb <= 4 * MiB
    BY SMT, <2>3, MapValues DEF ImageInv, ImageTypeOK, Configs
  <2> HIDE DEF w
  <2>5. CopiesInv' /\ wrote' \in SUBSET [what : {"dtb", "kernel", "initrd"}, base : Nat, size : Nat]
    BY <2>1, <2>2, <2>3, <2>4, AddCopy DEF ImageInv, Within
  <2>6. at = "dtb" /\ at' = "run"
    BY <1>6 DEF GenerateDtb
  <2>7. InitrdRange(wrote') = InitrdRange(wrote)
    BY <2>1, <2>2 DEF InitrdRange
  <2>8. InitrdRange(wrote) \in SUBSET [start : Nat, end : Nat]
    BY DEF InitrdRange, ImageInv, ImageTypeOK
  <2>9. Nodes(devices) \in SUBSET [base : Nat, spi : Nat]
    BY NodeValues
  <2>10. tree' = [initrd |-> InitrdRange(wrote'), nodes |-> Nodes(devices')]
    BY <1>6, <2>1, <2>7 DEF GenerateDtb
  <2>11. ImageTypeOK'
    BY <2>1, <2>5, <2>6, <2>7, <2>8, <2>9, <2>10 DEF ImageInv, ImageTypeOK, Steps
  <2>12. OrderInv'
    BY <2>1, <2>2, <2>6, <2>10 DEF ImageInv, OrderInv, Has
  <2>13. DevicesInv'
    BY <2>1, <2>6 DEF ImageInv, DevicesInv
  <2> QED
    BY <2>5, <2>11, <2>12, <2>13 DEF ImageInv
<1>7. CASE \E s \in Steps : Throw(s)
  BY <1>7 DEF Throw, ImageInv, ImageTypeOK, CopiesInv, OrderInv, DevicesInv, Copies, Has, Steps
<1>8. CASE UNCHANGED imageVars
  BY <1>8 DEF imageVars, ImageInv, ImageTypeOK, CopiesInv, OrderInv, DevicesInv, Copies, Has
<1> QED
  BY <1>1, <1>2, <1>3, <1>4, <1>5, <1>6, <1>7, <1>8 DEF ImageNext

\* The inductive invariant.
LEMMA ImageInvHolds == ImageSpec => []ImageInv
BY ImageInitInv, ImageNextInv, PTL DEF ImageSpec

\* Create never copies past the end of guest RAM once there are 171 MiB of it,
\* although it checks only the first address and fixed fractions of the size.
THEOREM CopiesStayInside == ImageSpec => []CopiesInsideRam
<1>1. ImageInv => CopiesInsideRam
  <2> SUFFICES ASSUME ImageInv, EnoughRam, NEW w \in wrote
               PROVE  /\ mapped /\ w.base >= kGpaRamBase
                      /\ w.base + w.size <= kGpaRamBase + cfg.ram
    BY DEF CopiesInsideRam
  <2>1. cfg.ram \in Nat /\ cfg.kernel \in Nat /\ cfg.initrd \in Nat /\ cfg.dtb \in Nat
    BY DEF ImageInv, ImageTypeOK, Configs
  <2>2. w \in Copies /\ mapped
    BY DEF ImageInv, CopiesInv
  <2>3. cfg.ram >= 179306496
    BY SMT, MapValues DEF EnoughRam
  <2>4. CASE w.what = "dtb"
    <3>1. w.base = 1073741824 /\ w.size = cfg.dtb /\ cfg.dtb <= 4194304
      BY SMT, <2>2, <2>4, MapValues DEF Copies, ImageInv, CopiesInv
    <3> QED
      BY SMT, <2>1, <2>2, <2>3, <3>1, MapValues
  <2>5. CASE w.what = "kernel"
    <3>1. w.base = 1077936128 /\ w.size = cfg.kernel /\ cfg.kernel <= cfg.ram \div 2
      BY SMT, <2>2, <2>5, MapValues DEF Copies, ImageInv, CopiesInv
    <3> QED
      BY SMT, <2>1, <2>2, <2>3, <3>1, MapValues
  <2>6. CASE w.what = "initrd"
    <3>1. w.base = 1207959552 /\ w.size = cfg.initrd /\ cfg.initrd <= cfg.ram \div 4
      BY SMT, <2>2, <2>6, MapValues DEF Copies, ImageInv, CopiesInv
    <3> QED
      BY SMT, <2>1, <2>2, <2>3, <3>1, MapValues
  <2> QED
    BY <2>2, <2>4, <2>5, <2>6 DEF Copies
<1> QED
  BY <1>1, ImageInvHolds, PTL

\* With a kernel of at most 124 MiB no image that Create copies overlaps
\* another one.
THEOREM ImagesStayApart == ImageSpec => []ImagesApart
<1>1. ImageInv => ImagesApart
  <2> SUFFICES ASSUME ImageInv, cfg.kernel <= 124 * MiB, NEW u \in wrote, NEW w \in wrote, u # w
               PROVE  Apart(u, w)
    BY DEF ImagesApart
  <2>1. cfg.kernel \in Nat /\ cfg.initrd \in Nat /\ cfg.dtb \in Nat
    BY DEF ImageInv, ImageTypeOK, Configs
  <2>2. u \in Copies /\ w \in Copies
    BY DEF ImageInv, CopiesInv
  <2>3. u.what = "dtb" \/ w.what = "dtb" => cfg.dtb <= 4194304
    BY SMT, MapValues DEF ImageInv, CopiesInv
  <2> QED
    BY SMT, <2>1, <2>2, <2>3, MapValues DEF Copies, Apart
<1> QED
  BY <1>1, ImageInvHolds, PTL

\* The device tree a guest starts with names the initrd where it is and every
\* device that exists.
THEOREM TreeIsTrue == ImageSpec => []TreeTellsTruth
<1>1. ImageInv => TreeTellsTruth
  <2> SUFFICES ASSUME ImageInv, at = "run" PROVE TreeTellsTruth
    BY DEF TreeTellsTruth
  <2>1. {"kernel", "dtb"} \subseteq {w.what : w \in wrote}
    BY DEF ImageInv, OrderInv, Has
  <2>2. tree.initrd = InitrdRange(wrote) /\ tree.nodes = Nodes(devices)
    BY DEF ImageInv, OrderInv
  <2>3. cfg.initrd > 0 => \E r \in tree.initrd : r.end = r.start + cfg.initrd
    <3> SUFFICES ASSUME cfg.initrd > 0 PROVE \E r \in tree.initrd : r.end = r.start + cfg.initrd
      OBVIOUS
    <3>1. PICK w \in wrote : w.what = "initrd"
      BY DEF ImageInv, OrderInv, Has
    <3>2. w.size = cfg.initrd
      BY <3>1 DEF ImageInv, CopiesInv, Copies
    <3>3. [start |-> w.base, end |-> w.base + w.size] \in tree.initrd
      BY <2>2, <3>1 DEF InitrdRange
    <3> QED
      BY <3>2, <3>3
  <2>4. ASSUME NEW d \in devices PROVE \E n \in tree.nodes : Route(n.base) = d /\ n.spi = Raises(d)
    <3> DEFINE At(k, n) == n \in tree.nodes /\ n.base = Windows[k].base /\ Windows[k].device = d
    <3>1. d \in {"console", "block", "net"}
      BY DEF ImageInv, ImageTypeOK
    <3>2. \E k \in 1..6 : \E n \in tree.nodes : At(k, n) /\ n.spi = Raises(d)
      <4>1. CASE d = "console"
        <5>1. At(1, Node(kGpaVirtioConsole, kSpiConsole))
          BY <2>2, <4>1 DEF Nodes, VirtioAlways, Node, Windows
        <5>2. Node(kGpaVirtioConsole, kSpiConsole).spi = Raises(d)
          BY <4>1 DEF Node, Raises, ConsoleIrq
        <5> QED
          BY <5>1, <5>2
      <4>2. CASE d = "block"
        <5>1. At(2, Node(kGpaVirtioBlock, kSpiBlock))
          BY <2>2, <4>2 DEF Nodes, VirtioAlways, Node, Windows
        <5>2. Node(kGpaVirtioBlock, kSpiBlock).spi = Raises(d)
          BY <4>2 DEF Node, Raises, BlockIrq
        <5> QED
          BY <5>1, <5>2
      <4>3. CASE d = "net"
        <5>1. At(3, Node(kGpaVirtioNet, kSpiNet))
          BY <2>2, <4>3 DEF Nodes, VirtioOptional, Node, Windows
        <5>2. Node(kGpaVirtioNet, kSpiNet).spi = Raises(d)
          BY <4>3 DEF Node, Raises, NetIrq
        <5> QED
          BY <5>1, <5>2
      <4> QED
        BY <3>1, <4>1, <4>2, <4>3
    <3>3. PICK k \in 1..6, n \in tree.nodes : At(k, n) /\ n.spi = Raises(d)
      BY <3>2
    <3>4. 0 \in 0..511
      OBVIOUS
    <3>5. Route(Windows[k].base + 0) = d
      BY <3>3, <3>4, RouteToDevice, Zenon
    <3>6. Windows[k].base + 0 = Windows[k].base
      BY WindowBase
    <3>7. Route(n.base) = d
      BY <3>3, <3>5, <3>6
    <3> QED
      BY <3>3, <3>7
  <2> QED
    BY <2>1, <2>2, <2>3, <2>4 DEF TreeTellsTruth
<1> QED
  BY <1>1, ImageInvHolds, PTL

\* Whatever devices were configured, a running guest that accesses a region its
\* tree announces reaches a device that exists and raises the interrupt the
\* tree announces with it; only the block device's region may be empty.
THEOREM TreeMatchesRouting == ImageSpec => []NodesRouted
<1>1. ImageInv => NodesRouted
  <2> SUFFICES ASSUME ImageInv, at = "run", NEW n \in tree.nodes, NEW o \in 0..(kGpaVirtioStride - 1)
               PROVE  LET d == Route(n.base + o)
                      IN \/ d \in devices /\ Raises(d) = n.spi
                         \/ d = "absent" /\ n.spi = BlockIrq /\ ~cfg.image
    BY DEF NodesRouted
  <2>1. n \in Nodes(devices) /\ devices \subseteq {"console", "block", "net"}
    BY DEF ImageInv, OrderInv, ImageTypeOK
  <2>2. "console" \in devices /\ ("block" \in devices <=> cfg.image)
    BY DEF ImageInv, DevicesInv
  <2>3. o \in 0..511
    BY SMT, MapValues
  <2>4. \/ n.base = Windows[1].base /\ n.spi = 16
        \/ n.base = Windows[2].base /\ n.spi = 17
        \/ n.base = Windows[3].base /\ n.spi = 19 /\ "net" \in devices
    <3>1. "gpu" \notin devices /\ "keyboard" \notin devices /\ "tablet" \notin devices
      BY <2>1
    <3>2. Windows[1].base = 167772160 /\ Windows[2].base = 167772672 /\ Windows[3].base = 167773184
      BY VirtioValues DEF Windows
    <3> QED
      BY <2>1, <3>1, <3>2, NodeValues
  <2>5. Windows[1].device = "console" /\ Windows[2].device = "block" /\ Windows[3].device = "net"
    BY DEF Windows
  <2>6. Raises("console") = 16 /\ Raises("block") = 17 /\ Raises("net") = 19 /\ BlockIrq = 17
    BY DEF Raises, ConsoleIrq, BlockIrq, NetIrq, kSpiConsole, kSpiBlock, kSpiNet
  <2>7. CASE n.base = Windows[1].base /\ n.spi = 16
    <3>1. Route(n.base + o) = "console"
      <4>1. 1 \in 1..6
        OBVIOUS
      <4>2. Route(Windows[1].base + o)
              = IF Windows[1].device \in devices THEN Windows[1].device ELSE "absent"
        BY <2>3, <4>1, RouteToDevice, Zenon
      <4> QED
        BY <2>2, <2>5, <2>7, <4>2, Zenon
    <3> QED
      BY <2>2, <2>6, <2>7, <3>1
  <2>8. CASE n.base = Windows[2].base /\ n.spi = 17
    <3>1. Route(n.base + o) = IF "block" \in devices THEN "block" ELSE "absent"
      <4>1. 2 \in 1..6
        OBVIOUS
      <4>2. Route(Windows[2].base + o)
              = IF Windows[2].device \in devices THEN Windows[2].device ELSE "absent"
        BY <2>3, <4>1, RouteToDevice, Zenon
      <4> QED
        BY <2>5, <2>8, <4>2, Zenon
    <3> QED
      BY <2>2, <2>6, <2>8, <3>1
  <2>9. CASE n.base = Windows[3].base /\ n.spi = 19 /\ "net" \in devices
    <3>1. Route(n.base + o) = "net"
      <4>1. 3 \in 1..6
        OBVIOUS
      <4>2. Route(Windows[3].base + o)
              = IF Windows[3].device \in devices THEN Windows[3].device ELSE "absent"
        BY <2>3, <4>1, RouteToDevice, Zenon
      <4> QED
        BY <2>5, <2>9, <4>2, Zenon
    <3> QED
      BY <2>6, <2>9, <3>1
  <2> QED
    BY <2>4, <2>7, <2>8, <2>9
<1> QED
  BY <1>1, ImageInvHolds, PTL
=============================================================================
