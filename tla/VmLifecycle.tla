----------------------------- MODULE VmLifecycle -----------------------------
(***************************************************************************)
(* The life of a VM of the HVF engine: compute::vm::Create and Destroy     *)
(* (vm.cpp), HvfBackend::Create and Destroy (hvf_backend.cpp), the run     *)
(* thread (VMContext::run_all), one thread per vCPU (VCpu::thread_func)    *)
(* and the PSCI calls a guest makes from an exit (fw_psci.cpp).            *)
(*                                                                         *)
(* Hypervisor.framework allows one VM per process, so one set of           *)
(* variables describes the VMContext that exists, if any.  Loads and       *)
(* stores of atomics are single steps; the code's relaxed accesses are     *)
(* ordered by the release/acquire pair on boot_pending or by a thread      *)
(* creation or join wherever the value read matters.                       *)
(*                                                                         *)
(* Three calls of the lifecycle go into components that may keep them for  *)
(* ever: ~Net (VirtioNet), the destructors of the serial channels          *)
(* (SerialBridge) and Net::write from a vCPU's exit (VirtioNet).  Each has *)
(* a step that returns and one that does not.                              *)
(***************************************************************************)
EXTENDS Integers, FiniteSets

CONSTANTS
    N,              \* vcpu_count(): "cpu_count" of the configuration
    Callers,        \* threads of the application that call the API
    NoCaller,       \* owner of a free mutex
    MaxHandle,      \* bound: number of successful Create calls
    MaxOn,          \* bound: number of CPU_ON calls in the life of a VM
    Guest,          \* which CPU_ON calls the guest makes, see MayOn
    SetupMayFail,   \* whether hypervisor calls and Create may fail
    Network,        \* the configuration enables the network device
    Serial          \* and names serial ports

ASSUME LifecycleAssumption ==
    /\ N \in Nat \ {0}
    /\ NoCaller \notin Callers
    /\ MaxHandle \in Nat
    /\ MaxOn \in Nat
    /\ Guest \in {"boot", "hotplug", "any"}
    /\ SetupMayFail \in BOOLEAN /\ Network \in BOOLEAN /\ Serial \in BOOLEAN

VARIABLES
    \* vm.cpp and HvfBackend
    reg,        \* g_backends: handles the API knows
    vms,        \* vms_: handles the backend knows
    nextId,     \* next_id_
    mutex,      \* owner of HvfBackend::mutex_
    cpc,        \* where each caller is in Create or Destroy
    arg,        \* the handle a caller's Destroy is about, or its Create returns
    hv,         \* hv_vm_create has succeeded and hv_vm_destroy has not yet
    leaked,     \* history: a Create threw after hv_vm_create
    \* VMContext
    ctx,        \* the VMContext exists
    running,    \* running_
    rpc,        \* where run_all is
    ri,         \* its loop index
    \* VCpu, indexed by vCPU
    vpc,        \* where thread_func is
    hvcpu,      \* hv_vcpu_create succeeded and hv_vcpu_destroy is to come
    bootPc,     \* boot_pc
    bootX0,     \* boot_x0
    pending,    \* boot_pending
    regPc,      \* the pc the vCPU was set up with
    regX0,      \* and its x0
    req,        \* the CPU_ON call being carried out: its target and tag
    \* the guest
    onCount,    \* CPU_ON calls made; a call's entry and context id share a tag
    asked,      \* history: vCPUs named by a CPU_ON
    off,        \* history: vCPUs that made CPU_OFF and were not asked for since
    granted     \* history: tags answered with SUCCESS whose target has not started

apiVars   == <<reg, vms, nextId, mutex, cpc, arg>>
hvVars    == <<hv, leaked>>
bootVars  == <<bootPc, bootX0, pending>>
regVars   == <<regPc, regX0>>
guestVars == <<onCount, asked, off>>
vcpuVars  == <<vpc, hvcpu, bootVars, regVars, req, guestVars, granted>>
runVars   == <<rpc, ri>>
vars      == <<apiVars, hvVars, ctx, running, runVars, vcpuVars>>

Cpus    == 0..(N - 1)
Handles == 1..MaxHandle
Tags    == 0..MaxOn

BuildPcs   == {"setup", "launch", "insert", "unwindHung"}
CreatePcs  == BuildPcs \cup {"hvCreate", "register"}
LockedPcs  == {"stop", "join", "reset", "resetHung", "hvDestroy", "erase", "eraseHung"}
DestroyPcs == {"find"} \cup LockedPcs
CallerPcs  == {"idle"} \cup CreatePcs \cup DestroyPcs
RunPcs     == {"none", "start", "spawn", "wait", "join", "end", "done"}
BootPcs    == {"create", "spin", "readPc", "readX0", "clear", "setup"}
GuestPcs   == {"loop", "guest", "netLocked", "storePc", "storeX0", "storePending"}
VcpuPcs    == {"none", "exited", "teardown"} \cup BootPcs \cup GuestPcs

\* A vCPU thread exists and has not returned from thread_func.
Alive(i) == vpc[i] \notin {"none", "exited"}

TypeOK ==
    /\ reg \subseteq Handles /\ vms \subseteq Handles
    /\ nextId \in 1..(MaxHandle + 1)
    /\ mutex \in Callers \cup {NoCaller}
    /\ cpc \in [Callers -> CallerPcs]
    /\ arg \in [Callers -> Handles \cup {0}]
    /\ \A c \in Callers : cpc[c] = "register" => arg[c] \in Handles
    /\ hv \in BOOLEAN /\ leaked \in BOOLEAN /\ ctx \in BOOLEAN
    /\ running \in BOOLEAN
    /\ rpc \in RunPcs
    /\ ri \in 0..N
    /\ vpc \in [Cpus -> VcpuPcs]
    /\ hvcpu \in [Cpus -> BOOLEAN]
    /\ bootPc \in [Cpus -> Tags] /\ bootX0 \in [Cpus -> Tags]
    /\ pending \in [Cpus -> BOOLEAN]
    /\ regPc \in [Cpus -> Tags] /\ regX0 \in [Cpus -> Tags]
    /\ req \in [Cpus -> [target : Cpus, tag : Tags]]
    /\ onCount \in Tags
    /\ asked \subseteq Cpus /\ off \subseteq Cpus
    /\ granted \in [Cpus -> SUBSET Tags]

Each(v) == [i \in Cpus |-> v]

Init ==
    /\ reg = {} /\ vms = {} /\ nextId = 1
    /\ mutex = NoCaller
    /\ cpc = [c \in Callers |-> "idle"]
    /\ arg = [c \in Callers |-> 0]
    /\ hv = FALSE /\ leaked = FALSE
    /\ ctx = FALSE
    /\ running = FALSE /\ rpc = "none" /\ ri = 0
    /\ vpc = Each("none") /\ hvcpu = Each(FALSE)
    /\ bootPc = Each(0) /\ bootX0 = Each(0) /\ pending = Each(FALSE)
    /\ regPc = Each(0) /\ regX0 = Each(0)
    /\ req = Each([target |-> 0, tag |-> 0])
    /\ onCount = 0 /\ asked = {} /\ off = {} /\ granted = Each({})

(***************************************************************************)
(* compute::vm::Create with "engine" = "hvf".                              *)
(***************************************************************************)
Goto(c, label) == cpc' = [cpc EXCEPT ![c] = label]

CreateCall(c) ==
    /\ cpc[c] = "idle"
    /\ nextId <= MaxHandle
    /\ Goto(c, "hvCreate")
    /\ UNCHANGED <<reg, vms, nextId, mutex, arg, hvVars, ctx, running, runVars, vcpuVars>>

\* hv_vm_create refuses a second VM in the process: Create throws.  (The last
\* disjunct only applies the bound MaxHandle.)
HvCreateFails(c) ==
    /\ cpc[c] = "hvCreate"
    /\ hv \/ SetupMayFail \/ nextId > MaxHandle
    /\ Goto(c, "idle")
    /\ UNCHANGED <<reg, vms, nextId, mutex, arg, hvVars, ctx, running, runVars, vcpuVars>>

\* The VMContext as its constructor and init_vcpus leave it.
HvCreate(c) ==
    /\ cpc[c] = "hvCreate"
    /\ ~hv
    /\ nextId <= MaxHandle
    /\ hv' = TRUE
    /\ ctx' = TRUE
    /\ running' = FALSE /\ rpc' = "none" /\ ri' = 0
    /\ vpc' = Each("none") /\ hvcpu' = Each(FALSE)
    /\ bootPc' = Each(0) /\ bootX0' = Each(0) /\ pending' = Each(FALSE)
    /\ regPc' = Each(0) /\ regX0' = Each(0)
    /\ req' = Each([target |-> 0, tag |-> 0])
    /\ onCount' = 0 /\ asked' = {} /\ off' = {} /\ granted' = Each({})
    /\ Goto(c, "setup")
    /\ UNCHANGED <<reg, vms, nextId, mutex, arg, leaked>>

\* Memory::init, the devices, the loader or the DTB fail: Create throws, the
\* unique_ptr drops the context and nobody calls hv_vm_destroy.
SetupThrows(c) ==
    /\ cpc[c] = "setup"
    /\ SetupMayFail
    /\ ctx' = FALSE
    /\ leaked' = TRUE
    /\ Goto(c, "idle")
    /\ UNCHANGED <<reg, vms, nextId, mutex, arg, hv, running, runVars, vcpuVars>>

\* ... unless the unwinding itself does not end: it destroys serial_channels,
\* whose accept and pump threads nobody has woken, and then the context with
\* its network device.
UnwindHangs(c) ==
    /\ cpc[c] = "setup"
    /\ SetupMayFail
    /\ Network \/ Serial
    /\ Goto(c, "unwindHung")
    /\ UNCHANGED <<reg, vms, nextId, mutex, arg, hvVars, ctx, running, runVars, vcpuVars>>

Setup(c) ==
    /\ cpc[c] = "setup"
    /\ Goto(c, "launch")
    /\ UNCHANGED <<reg, vms, nextId, mutex, arg, hvVars, ctx, running, runVars, vcpuVars>>

\* inst.run_thread starts before the instance is in vms_.
Launch(c) ==
    /\ cpc[c] = "launch"
    /\ rpc' = "start"
    /\ Goto(c, "insert")
    /\ UNCHANGED <<reg, vms, nextId, mutex, arg, hvVars, ctx, running, ri, vcpuVars>>

Insert(c) ==
    /\ cpc[c] = "insert"
    /\ mutex = NoCaller
    /\ nextId <= MaxHandle
    /\ vms' = vms \cup {nextId}
    /\ arg' = [arg EXCEPT ![c] = nextId]
    /\ nextId' = nextId + 1
    /\ Goto(c, "register")
    /\ UNCHANGED <<reg, mutex, hvVars, ctx, running, runVars, vcpuVars>>

\* g_backends[handle] = backend_ptr, and Create returns.
Register(c) ==
    /\ cpc[c] = "register"
    /\ reg' = reg \cup {arg[c]}
    /\ Goto(c, "idle")
    /\ UNCHANGED <<vms, nextId, mutex, arg, hvVars, ctx, running, runVars, vcpuVars>>

(***************************************************************************)
(* compute::vm::Destroy.  The registry entry goes first, so only one call  *)
(* per handle reaches the backend.                                         *)
(***************************************************************************)
DestroyCall(c, h) ==
    /\ cpc[c] = "idle"
    /\ h \in reg
    /\ reg' = reg \ {h}
    /\ arg' = [arg EXCEPT ![c] = h]
    /\ Goto(c, "find")
    /\ UNCHANGED <<vms, nextId, mutex, hvVars, ctx, running, runVars, vcpuVars>>

\* Mutant: mutex_ is held for the lookup only.
FindThenUnlock(c) ==
    /\ cpc[c] = "find"
    /\ mutex = NoCaller
    /\ Goto(c, IF arg[c] \in vms THEN "stop" ELSE "idle")
    /\ UNCHANGED <<reg, vms, nextId, mutex, arg, hvVars, ctx, running, runVars, vcpuVars>>

\* HvfBackend::Destroy takes mutex_, finds the instance and closes its serial
\* descriptors; an unknown handle returns at once.
Find(c) ==
    /\ cpc[c] = "find"
    /\ mutex = NoCaller
    /\ IF arg[c] \in vms
       THEN mutex' = c /\ Goto(c, "stop")
       ELSE mutex' = mutex /\ Goto(c, "idle")
    /\ UNCHANGED <<reg, vms, nextId, arg, hvVars, ctx, running, runVars, vcpuVars>>

Stop(c) ==
    /\ cpc[c] = "stop"
    /\ running' = FALSE
    /\ Goto(c, "join")
    /\ UNCHANGED <<reg, vms, nextId, mutex, arg, hvVars, ctx, runVars, vcpuVars>>

\* Mutant: Destroy does not wait for the run thread.
DetachRunThread(c) ==
    /\ cpc[c] = "join"
    /\ Goto(c, "reset")
    /\ UNCHANGED <<reg, vms, nextId, mutex, arg, hvVars, ctx, running, runVars, vcpuVars>>

JoinRunThread(c) ==
    /\ cpc[c] = "join"
    /\ rpc = "done"
    /\ Goto(c, "reset")
    /\ UNCHANGED <<reg, vms, nextId, mutex, arg, hvVars, ctx, running, runVars, vcpuVars>>

\* ctx.reset(): ~VMContext drops the vCPUs, the devices and the guest's RAM.
Reset(c) ==
    /\ cpc[c] = "reset"
    /\ ctx' = FALSE
    /\ Goto(c, "hvDestroy")
    /\ UNCHANGED <<reg, vms, nextId, mutex, arg, hvVars, running, runVars, vcpuVars>>

\* ... or ~Net does not return: it joins its RX thread, which may have missed
\* both stop_rx_ and the notification (VirtioNet, net_teardown.cfg).
ResetHangs(c) ==
    /\ cpc[c] = "reset"
    /\ Network
    /\ Goto(c, "resetHung")
    /\ UNCHANGED <<reg, vms, nextId, mutex, arg, hvVars, ctx, running, runVars, vcpuVars>>

\* hv_vm_destroy (external): it refuses while a vCPU of the VM exists.
HvDestroy(c) ==
    /\ cpc[c] = "hvDestroy"
    /\ hv' = (\E i \in Cpus : hvcpu[i])
    /\ Goto(c, "erase")
    /\ UNCHANGED <<reg, vms, nextId, mutex, arg, leaked, ctx, running, runVars, vcpuVars>>

Erase(c) ==
    /\ cpc[c] = "erase"
    /\ vms' = vms \ {arg[c]}
    /\ mutex' = NoCaller
    /\ Goto(c, "idle")
    /\ UNCHANGED <<reg, nextId, arg, hvVars, ctx, running, runVars, vcpuVars>>

\* ... or the destructor of a serial channel does not return: it joins the pump
\* thread and the accept thread, which nothing may have woken (SerialBridge,
\* serial_no_client.cfg).
EraseHangs(c) ==
    /\ cpc[c] = "erase"
    /\ Serial
    /\ Goto(c, "eraseHung")
    /\ UNCHANGED <<reg, vms, nextId, mutex, arg, hvVars, ctx, running, runVars, vcpuVars>>

CallerStep(c) ==
    \/ HvCreateFails(c) \/ HvCreate(c) \/ SetupThrows(c) \/ UnwindHangs(c) \/ Setup(c)
    \/ Launch(c) \/ Insert(c) \/ Register(c)
    \/ Find(c) \/ Stop(c) \/ JoinRunThread(c) \/ Reset(c) \/ ResetHangs(c)
    \/ HvDestroy(c) \/ Erase(c) \/ EraseHangs(c)

(***************************************************************************)
(* VMContext::run_all, on the run thread.                                  *)
(***************************************************************************)
RunStart ==
    /\ rpc = "start"
    /\ running' = TRUE
    /\ rpc' = "spawn"
    /\ UNCHANGED <<apiVars, hvVars, ctx, ri, vcpuVars>>

\* Mutant: the loop condition off by one.
RunSpawnOneMore ==
    /\ rpc = "spawn"
    /\ IF ri <= N
       THEN /\ vpc' = [vpc EXCEPT ![ri] = "create"]
            /\ ri' = ri + 1
            /\ rpc' = rpc
       ELSE /\ rpc' = "wait"
            /\ ri' = 0
            /\ vpc' = vpc
    /\ UNCHANGED <<apiVars, hvVars, ctx, running, hvcpu, bootVars, regVars, req, guestVars, granted>>

\* Mutant: running_ is set after the vCPUs are spawned.
RunSpawnThenStore ==
    /\ rpc = "spawn"
    /\ IF ri < N
       THEN /\ vpc' = [vpc EXCEPT ![ri] = "create"]
            /\ ri' = ri + 1
            /\ UNCHANGED <<rpc, running>>
       ELSE /\ rpc' = "wait"
            /\ ri' = 0
            /\ running' = TRUE
            /\ vpc' = vpc
    /\ UNCHANGED <<apiVars, hvVars, ctx, hvcpu, bootVars, regVars, req, guestVars, granted>>

RunSpawn ==
    /\ rpc = "spawn"
    /\ IF ri < N
       THEN /\ vpc' = [vpc EXCEPT ![ri] = "create"]
            /\ ri' = ri + 1
            /\ rpc' = rpc
       ELSE /\ rpc' = "wait"
            /\ ri' = 0
            /\ vpc' = vpc
    /\ UNCHANGED <<apiVars, hvVars, ctx, running, hvcpu, bootVars, regVars, req, guestVars, granted>>

RunWait ==
    /\ rpc = "wait"
    /\ ~running
    /\ rpc' = "join"
    /\ UNCHANGED <<apiVars, hvVars, ctx, running, ri, vcpuVars>>

RunJoin ==
    /\ rpc = "join"
    /\ IF ri < N
       THEN /\ vpc[ri] = "exited"
            /\ ri' = ri + 1
            /\ rpc' = rpc
       ELSE /\ rpc' = "end"
            /\ ri' = ri
    /\ UNCHANGED <<apiVars, hvVars, ctx, running, vcpuVars>>

RunEnd ==
    /\ rpc = "end"
    /\ running' = FALSE
    /\ rpc' = "done"
    /\ UNCHANGED <<apiVars, hvVars, ctx, ri, vcpuVars>>

RunStep == RunStart \/ RunSpawn \/ RunWait \/ RunJoin \/ RunEnd

(***************************************************************************)
(* VCpu::thread_func.                                                      *)
(***************************************************************************)
Jump(i, label) == vpc' = [vpc EXCEPT ![i] = label]

\* Mutant: the thread resets boot_pending when it starts.
VcpuCreateClears(i) ==
    /\ vpc[i] = "create"
    /\ hvcpu' = [hvcpu EXCEPT ![i] = TRUE]
    /\ pending' = [pending EXCEPT ![i] = FALSE]
    /\ Jump(i, IF i = 0 THEN "setup" ELSE "spin")
    /\ UNCHANGED <<apiVars, hvVars, ctx, running, runVars, bootPc, bootX0, regVars, req, guestVars, granted>>

VcpuCreate(i) ==
    /\ vpc[i] = "create"
    /\ hvcpu' = [hvcpu EXCEPT ![i] = TRUE]
    /\ Jump(i, IF i = 0 THEN "setup" ELSE "spin")
    /\ UNCHANGED <<apiVars, hvVars, ctx, running, runVars, bootVars, regVars, req, guestVars, granted>>

\* hv_vcpu_create fails: stop() and return, there is nothing to destroy.
VcpuCreateFails(i) ==
    /\ vpc[i] = "create"
    /\ SetupMayFail
    /\ running' = FALSE
    /\ Jump(i, "exited")
    /\ UNCHANGED <<apiVars, hvVars, ctx, runVars, hvcpu, bootVars, regVars, req, guestVars, granted>>

\* A secondary spins on boot_pending; running_ is not looked at here.
VcpuSpin(i) ==
    /\ vpc[i] = "spin"
    /\ pending[i]
    /\ Jump(i, "readPc")
    /\ UNCHANGED <<apiVars, hvVars, ctx, running, runVars, hvcpu, bootVars, regVars, req, guestVars, granted>>

VcpuReadPc(i) ==
    /\ vpc[i] = "readPc"
    /\ regPc' = [regPc EXCEPT ![i] = bootPc[i]]
    /\ Jump(i, "readX0")
    /\ UNCHANGED <<apiVars, hvVars, ctx, running, runVars, hvcpu, bootVars, regX0, req, guestVars, granted>>

VcpuReadX0(i) ==
    /\ vpc[i] = "readX0"
    /\ regX0' = [regX0 EXCEPT ![i] = bootX0[i]]
    /\ Jump(i, "clear")
    /\ UNCHANGED <<apiVars, hvVars, ctx, running, runVars, hvcpu, bootVars, regPc, req, guestVars, granted>>

VcpuClear(i) ==
    /\ vpc[i] = "clear"
    /\ pending' = [pending EXCEPT ![i] = FALSE]
    /\ Jump(i, "setup")
    /\ UNCHANGED <<apiVars, hvVars, ctx, running, runVars, hvcpu, bootPc, bootX0, regVars, req, guestVars, granted>>

\* setup_regs; the primary's entry point and DTB address are tag 0.
VcpuSetup(i) ==
    /\ vpc[i] = "setup"
    /\ granted' = [granted EXCEPT ![i] = @ \ {regPc[i]}]
    /\ Jump(i, "loop")
    /\ UNCHANGED <<apiVars, hvVars, ctx, running, runVars, hvcpu, bootVars, regVars, req, guestVars>>

\* Mutant: the failure path forgets hv_vcpu_destroy.
VcpuSetupFailsKeepsVcpu(i) ==
    /\ vpc[i] = "setup"
    /\ SetupMayFail
    /\ running' = FALSE
    /\ Jump(i, "exited")
    /\ UNCHANGED <<apiVars, hvVars, ctx, runVars, hvcpu, bootVars, regVars, req, guestVars, granted>>

VcpuSetupFails(i) ==
    /\ vpc[i] = "setup"
    /\ SetupMayFail
    /\ running' = FALSE
    /\ Jump(i, "teardown")
    /\ UNCHANGED <<apiVars, hvVars, ctx, runVars, hvcpu, bootVars, regVars, req, guestVars, granted>>

\* Mutant: the loop does not look at running_.
VcpuLoopForever(i) ==
    /\ vpc[i] = "loop"
    /\ Jump(i, "guest")
    /\ UNCHANGED <<apiVars, hvVars, ctx, running, runVars, hvcpu, bootVars, regVars, req, guestVars, granted>>

VcpuLoop(i) ==
    /\ vpc[i] = "loop"
    /\ Jump(i, IF running THEN "guest" ELSE "teardown")
    /\ UNCHANGED <<apiVars, hvVars, ctx, running, runVars, hvcpu, bootVars, regVars, req, guestVars, granted>>

VcpuTeardown(i) ==
    /\ vpc[i] = "teardown"
    /\ hvcpu' = [hvcpu EXCEPT ![i] = FALSE]
    /\ Jump(i, "exited")
    /\ UNCHANGED <<apiVars, hvVars, ctx, running, runVars, bootVars, regVars, req, guestVars, granted>>

(***************************************************************************)
(* hv_vcpu_run returns and ExitHandler::handle deals with the exit.        *)
(***************************************************************************)

\* A timer, WFI, system register or MMIO exit, or a PSCI call that changes
\* no host state (VERSION, FEATURES, CPU_SUSPEND, a CPU_ON of a vCPU that does
\* not exist, ...): back to the loop.
ExitResume(i) ==
    /\ vpc[i] = "guest"
    /\ Jump(i, "loop")
    /\ UNCHANGED <<apiVars, hvVars, ctx, running, runVars, hvcpu, bootVars, regVars, req, guestVars, granted>>

\* An MMIO exit goes into Net::write, which locks the device's mutex a second
\* time or waits behind a vCPU that has (VirtioNet, net_sync_reply.cfg).
ExitHangs(i) ==
    /\ vpc[i] = "guest"
    /\ Network
    /\ Jump(i, "netLocked")
    /\ UNCHANGED <<apiVars, hvVars, ctx, running, runVars, hvcpu, bootVars, regVars, req, guestVars, granted>>

\* hv_vcpu_run fails or the exit reason is unknown: the thread ends alone.
ExitFails(i) ==
    /\ vpc[i] = "guest"
    /\ SetupMayFail
    /\ Jump(i, "teardown")
    /\ UNCHANGED <<apiVars, hvVars, ctx, running, runVars, hvcpu, bootVars, regVars, req, guestVars, granted>>

(***************************************************************************)
(* The guests of the runs.  "boot" asks for every secondary at most once;  *)
(* "hotplug" also for one that has made CPU_OFF since; "any" at any time.  *)
(***************************************************************************)
MayOn(t) ==
    \/ Guest = "boot"    /\ t # 0 /\ t \notin asked
    \/ Guest = "hotplug" /\ t # 0 /\ (t \notin asked \/ t \in off)
    \/ Guest = "any"

PsciCpuOn(i, t) ==
    /\ vpc[i] = "guest"
    /\ onCount < MaxOn
    /\ MayOn(t)
    /\ onCount' = onCount + 1
    /\ asked' = asked \cup {t}
    /\ off' = off \ {t}
    /\ req' = [req EXCEPT ![i] = [target |-> t, tag |-> onCount']]
    /\ Jump(i, "storePc")
    /\ UNCHANGED <<apiVars, hvVars, ctx, running, runVars, hvcpu, bootVars, regVars, granted>>

\* Mutant: boot_pending is set before boot_x0 is written.
CpuOnStorePcAndPending(i) ==
    /\ vpc[i] = "storePc"
    /\ bootPc' = [bootPc EXCEPT ![req[i].target] = req[i].tag]
    /\ pending' = [pending EXCEPT ![req[i].target] = TRUE]
    /\ Jump(i, "storeX0")
    /\ UNCHANGED <<apiVars, hvVars, ctx, running, runVars, hvcpu, bootX0, regVars, req, guestVars, granted>>

CpuOnStorePc(i) ==
    /\ vpc[i] = "storePc"
    /\ bootPc' = [bootPc EXCEPT ![req[i].target] = req[i].tag]
    /\ Jump(i, "storeX0")
    /\ UNCHANGED <<apiVars, hvVars, ctx, running, runVars, hvcpu, bootX0, pending, regVars, req, guestVars, granted>>

CpuOnStoreX0(i) ==
    /\ vpc[i] = "storeX0"
    /\ bootX0' = [bootX0 EXCEPT ![req[i].target] = req[i].tag]
    /\ Jump(i, "storePending")
    /\ UNCHANGED <<apiVars, hvVars, ctx, running, runVars, hvcpu, bootPc, pending, regVars, req, guestVars, granted>>

\* ... and SUCCESS in the caller's X0.
CpuOnStorePending(i) ==
    /\ vpc[i] = "storePending"
    /\ pending' = [pending EXCEPT ![req[i].target] = TRUE]
    /\ granted' = [granted EXCEPT ![req[i].target] = @ \cup {req[i].tag}]
    /\ Jump(i, "loop")
    /\ UNCHANGED <<apiVars, hvVars, ctx, running, runVars, hvcpu, bootPc, bootX0, regVars, req, guestVars>>

PsciCpuOff(i) ==
    /\ vpc[i] = "guest"
    /\ off' = off \cup {i}
    /\ Jump(i, "teardown")
    /\ UNCHANGED <<apiVars, hvVars, ctx, running, runVars, hvcpu, bootVars, regVars, req, onCount, asked, granted>>

\* SYSTEM_OFF and SYSTEM_RESET.
PsciSystemOff(i) ==
    /\ vpc[i] = "guest"
    /\ running' = FALSE
    /\ Jump(i, "teardown")
    /\ UNCHANGED <<apiVars, hvVars, ctx, runVars, hvcpu, bootVars, regVars, req, guestVars, granted>>

VcpuStep(i) ==
    \/ VcpuCreate(i) \/ VcpuCreateFails(i)
    \/ VcpuSpin(i) \/ VcpuReadPc(i) \/ VcpuReadX0(i) \/ VcpuClear(i)
    \/ VcpuSetup(i) \/ VcpuSetupFails(i) \/ VcpuLoop(i) \/ VcpuTeardown(i)
    \/ ExitResume(i) \/ ExitHangs(i) \/ ExitFails(i)
    \/ \E t \in Cpus : PsciCpuOn(i, t)
    \/ CpuOnStorePc(i) \/ CpuOnStoreX0(i) \/ CpuOnStorePending(i)
    \/ PsciCpuOff(i) \/ PsciSystemOff(i)

Next ==
    \/ \E c \in Callers : CreateCall(c)
    \/ \E c \in Callers, h \in Handles : DestroyCall(c, h)
    \/ \E c \in Callers : CallerStep(c)
    \/ RunStep
    \/ \E i \in Cpus : VcpuStep(i)

Spec == Init /\ [][Next]_vars

(***************************************************************************)
(* Every thread is scheduled.  For a vCPU inside the guest this says that  *)
(* hv_vcpu_run returns in the end: a Linux guest keeps its timer armed and *)
(* idles in WFI, and both leave the guest.  Whether an application calls   *)
(* the API at all is its own affair.                                       *)
(***************************************************************************)
Fairness ==
    /\ \A c \in Callers : WF_vars(CallerStep(c))
    /\ WF_vars(RunStep)
    /\ \A i \in Cpus : WF_vars(VcpuStep(i))

FairSpec == Spec /\ Fairness

-----------------------------------------------------------------------------
(* Safety *)

\* ctx.reset() frees what every thread of the VM uses: once the VMContext is
\* gone, or is being dropped, the run thread has returned from run_all and no
\* vCPU thread is left (hvf_backend.cpp: join before reset).
NoUseAfterReset ==
    (~ctx \/ \E c \in Callers : cpc[c] \in {"reset", "resetHung", "unwindHung"})
        => /\ rpc \in {"none", "done"}
           /\ \A i \in Cpus : ~Alive(i)

\* hv_vm_destroy never meets a vCPU that is still there: on every way out of
\* thread_func the vCPU it created has been destroyed, so the process can
\* create its next VM.
VcpusGoneBeforeVm ==
    \A c \in Callers : cpc[c] = "hvDestroy" => \A i \in Cpus : ~hvcpu[i]

\* The backend's table and the hypervisor agree: there is one VM at most, a
\* handle nobody is destroying has its context and its hypervisor VM, and a
\* hypervisor VM without a handle is one whose Create is still running or threw.
HvAccounted ==
    /\ \A g, h \in vms : g = h
    /\ (vms # {} /\ mutex = NoCaller) => ctx /\ hv
    /\ (hv /\ vms = {}) => leaked \/ \E c \in Callers : cpc[c] \in BuildPcs

\* With a guest that asks for a secondary once, the vCPU starts with the entry
\* point and the context id of one and the same CPU_ON call (the handshake of
\* vcpu.hpp: write boot_pc and boot_x0, then set boot_pending).
BootArgsMatch ==
    \A i \in Cpus \ {0} :
        vpc[i] \in GuestPcs \cup {"clear", "setup"}
            => regPc[i] = regX0[i] /\ regPc[i] \in 1..onCount

\* A stop request is not forgotten: from the moment a vCPU thread exists,
\* running_ never goes back to true for the same VMContext.
StopSticks ==
    [][(\E i \in Cpus : vpc[i] # "none") /\ ~running /\ ctx' => ~running']_vars

(* Liveness *)

\* Destroy waits in run_thread.join() after stop().  If run_all had started by
\* then and no secondary still waits for its CPU_ON, all threads notice running_
\* within one guest exit and Destroy returns; what can still keep it, and the
\* only thing, is a device: a vCPU locked in Net::write (net_sync_reply), ~Net
\* under ctx.reset() (net_teardown) or the join of a serial channel's threads
\* under vms_.erase (serial_no_client).  Without network and serial ports it
\* returns.
DestroyReturnsBooted ==
    \A c \in Callers :
        (/\ cpc[c] = "join"
         /\ ~running /\ rpc \notin {"none", "start"}
         /\ \A i \in Cpus \ {0} : vpc[i] \in {"none", "create", "spin"} => pending[i])
        ~> (\/ cpc[c] \in {"idle", "resetHung", "eraseHung"}
            \/ \E i \in Cpus : vpc[i] = "netLocked")

\* A CPU_ON answered with SUCCESS starts its target, unless the VM stops first.
CpuOnStarts ==
    \A t \in Cpus \ {0}, k \in 1..MaxOn :
        (k \in granted[t]) ~> (k \notin granted[t] \/ ~running)

\* README.md: "Stop and destroy the VM." - every Destroy call returns.
DestroyReturns ==
    \A c \in Callers : (cpc[c] = "join") ~> (cpc[c] = "idle")

\* vcpu.hpp: join() "Waits for the vCPU thread to exit" - once the VM is to
\* stop, run_all's joins come to an end.
StopEndsRun ==
    (rpc = "join") ~> (rpc = "done")
=============================================================================
