------------------------------ MODULE BootImage ------------------------------
(***************************************************************************)
(* What HvfBackend::Create puts into guest memory before the first vCPU    *)
(* runs: Memory::init, the devices, Loader::load_kernel and load_initrd,   *)
(* DTB::generate, in this order, each of which may end Create with a       *)
(* throw; and the three tables that have to agree once the guest runs: the *)
(* device tree's nodes, handle_mmio's address windows and the interrupts   *)
(* the devices raise.  Each is written out in a file of its own, and here  *)
(* from the lines of that file.                                            *)
(*                                                                         *)
(* Sizes and addresses are in bytes.  A file is its size, a header with    *)
(* the wrong magic is magic = FALSE.  The device tree is the initrd range  *)
(* and the virtio nodes it names; its encoding and its other nodes only    *)
(* count in its size.                                                      *)
(***************************************************************************)
EXTENDS Integers

MiB == 1048576

\* The guest physical address map.
kGpaRamBase    == 1024 * MiB
kGpaDtbLoad    == kGpaRamBase
kGpaKernelLoad == kGpaRamBase + 4 * MiB
kGpaInitrdLoad == kGpaRamBase + 128 * MiB
kGpaUart0      == 144 * MiB
kGpaRtcBase    == 144 * MiB + 65536
kGpaVirtioBase == 160 * MiB
kGpaVirtioStride == 512
kGpaGicDist    == 128 * MiB
kGpaGicRedist  == 128 * MiB + 655360

kGpaVirtioConsole  == kGpaVirtioBase + 0 * kGpaVirtioStride
kGpaVirtioBlock    == kGpaVirtioBase + 1 * kGpaVirtioStride
kGpaVirtioNet      == kGpaVirtioBase + 2 * kGpaVirtioStride
kGpaVirtioGpu      == kGpaVirtioBase + 3 * kGpaVirtioStride
kGpaVirtioKeyboard == kGpaVirtioBase + 4 * kGpaVirtioStride
kGpaVirtioTablet   == kGpaVirtioBase + 5 * kGpaVirtioStride

\* The interrupt numbers.
kSpiConsole  == 16
kSpiBlock    == 17
kSpiNet      == 19
kSpiGpu      == 20
kSpiKeyboard == 21
kSpiTablet   == 22

Devices == {"console", "block", "net", "gpu", "keyboard", "tablet"}

\* A configuration and the files it names; 0 is the size of a file that is
\* not configured.  dtb is the size of the blob that FdtBuilder makes of it.
Configs == [ram : Nat, image : BOOLEAN, net : BOOLEAN,
            kernel : Nat, magic : BOOLEAN, initrd : Nat, dtb : Nat]

VARIABLES
    cfg,      \* the configuration
    at,       \* where Create is: a step, "run" or "thrown"
    mapped,   \* ram_hva_ is set
    devices,  \* the device objects that exist
    wrote,    \* what was copied into RAM: [what, base, size]
    tree      \* the device tree: [initrd, nodes]

imageVars == <<cfg, at, mapped, devices, wrote, tree>>

NoTree == [initrd |-> {}, nodes |-> {}]

Start(c) ==
    /\ cfg = c /\ at = "memory" /\ mapped = FALSE
    /\ devices = {} /\ wrote = {} /\ tree = NoTree

ImageInit == \E c \in Configs : Start(c)

\* A step throws: Create ends, what was set up so far stays as it is.
Throw(step) ==
    /\ at = step /\ at' = "thrown"
    /\ UNCHANGED <<cfg, mapped, devices, wrote, tree>>

\* gpa_to_hva looks at the first address only.
Mapped(gpa) == mapped /\ gpa >= kGpaRamBase /\ gpa < kGpaRamBase + cfg.ram

Copy(what, base, size) == wrote' = wrote \cup {[what |-> what, base |-> base, size |-> size]}

(***************************************************************************)
(* Memory::init; mmap refuses an empty mapping, and any call may fail.     *)
(***************************************************************************)
MapRam ==
    /\ at = "memory" /\ cfg.ram > 0
    /\ mapped' = TRUE /\ at' = "devices"
    /\ UNCHANGED <<cfg, devices, wrote, tree>>

\* create_console, create_block if an image is configured, create_net if the
\* network is enabled.
CreateDevices ==
    /\ at = "devices" /\ at' = "kernel"
    /\ devices' = {"console"} \cup (IF cfg.image THEN {"block"} ELSE {})
                              \cup (IF cfg.net THEN {"net"} ELSE {})
    /\ UNCHANGED <<cfg, mapped, wrote, tree>>

\* load_file's test of the size.
Fits(size, max) == size > 0 /\ size <= max

\* load_kernel: a bad magic is found after the file is in memory.
LoadKernel ==
    /\ at = "kernel" /\ Mapped(kGpaKernelLoad) /\ Fits(cfg.kernel, cfg.ram \div 2)
    /\ Copy("kernel", kGpaKernelLoad, cfg.kernel)
    /\ at' = IF cfg.magic THEN "initrd" ELSE "thrown"
    /\ UNCHANGED <<cfg, mapped, devices, tree>>

NoInitrd ==
    /\ at = "initrd" /\ cfg.initrd = 0
    /\ at' = "dtb"
    /\ UNCHANGED <<cfg, mapped, devices, wrote, tree>>

LoadInitrd ==
    /\ at = "initrd" /\ Mapped(kGpaInitrdLoad) /\ Fits(cfg.initrd, cfg.ram \div 4)
    /\ Copy("initrd", kGpaInitrdLoad, cfg.initrd)
    /\ at' = "dtb"
    /\ UNCHANGED <<cfg, mapped, devices, tree>>

\* The tree's virtio nodes: console and block always, the others when the
\* device exists.
Node(gpa, spi) == [base |-> gpa, spi |-> spi]
VirtioAlways   == {Node(kGpaVirtioConsole, kSpiConsole), Node(kGpaVirtioBlock, kSpiBlock)}
VirtioOptional(devs) ==
    UNION {IF "net" \in devs THEN {Node(kGpaVirtioNet, kSpiNet)} ELSE {},
           IF "gpu" \in devs THEN {Node(kGpaVirtioGpu, kSpiGpu)} ELSE {},
           IF "keyboard" \in devs THEN {Node(kGpaVirtioKeyboard, kSpiKeyboard)} ELSE {},
           IF "tablet" \in devs THEN {Node(kGpaVirtioTablet, kSpiTablet)} ELSE {}}
Nodes(devs) == VirtioAlways \cup VirtioOptional(devs)

\* linux,initrd-start and linux,initrd-end, when load_initrd has set them.
InitrdRange(ws) == {[start |-> w.base, end |-> w.base + w.size] : w \in {x \in ws : x.what = "initrd"}}

\* The blob is refused when it does not fit below the kernel.
GenerateDtb ==
    /\ at = "dtb" /\ Mapped(kGpaDtbLoad)
    /\ cfg.dtb <= kGpaKernelLoad - kGpaDtbLoad
    /\ tree' = [initrd |-> InitrdRange(wrote), nodes |-> Nodes(devices)]
    /\ Copy("dtb", kGpaDtbLoad, cfg.dtb)
    /\ at' = "run"
    /\ UNCHANGED <<cfg, mapped, devices>>

\* The steps that end in a throw.  A file that cannot be opened or read, a
\* failing system call and a failing serial port are all possible.
Steps == {"memory", "devices", "kernel", "initrd", "dtb"}
ImageNext ==
    \/ MapRam \/ CreateDevices \/ LoadKernel \/ NoInitrd \/ LoadInitrd \/ GenerateDtb
    \/ \E s \in Steps : Throw(s)

ImageSpec == ImageInit /\ [][ImageNext]_imageVars

(***************************************************************************)
(* handle_mmio: the windows are tried in this order.  An access to a       *)
(* virtio window whose device does not exist reaches nobody and reads as   *)
(* zero, which a driver takes for an empty slot.                           *)
(***************************************************************************)
In(ipa, base, size) == ipa >= base /\ ipa < base + size

Windows == <<
    [base |-> kGpaVirtioConsole,  device |-> "console"],
    [base |-> kGpaVirtioBlock,    device |-> "block"],
    [base |-> kGpaVirtioNet,      device |-> "net"],
    [base |-> kGpaVirtioGpu,      device |-> "gpu"],
    [base |-> kGpaVirtioKeyboard, device |-> "keyboard"],
    [base |-> kGpaVirtioTablet,   device |-> "tablet"] >>

Hits(ipa) == {k \in 1..6 : In(ipa, Windows[k].base, kGpaVirtioStride)}

Route(ipa) ==
    IF In(ipa, kGpaUart0, 4096) THEN "uart"
    ELSE IF In(ipa, kGpaRtcBase, 4096) THEN "rtc"
    ELSE IF Hits(ipa) # {}
         THEN LET first == CHOOSE k \in Hits(ipa) : \A l \in Hits(ipa) : k <= l
              IN IF Windows[first].device \in devices THEN Windows[first].device ELSE "absent"
    ELSE IF In(ipa, kGpaGicDist, 65536) \/ In(ipa, kGpaGicRedist, 8 * 131072) THEN "gic"
    ELSE "unhandled"

\* The interrupt each device's notify_irq raises; an input device is given its
\* number when it is created.
ConsoleIrq == kSpiConsole
BlockIrq   == kSpiBlock
NetIrq     == kSpiNet
GpuIrq     == kSpiGpu
InputIrq   == [d \in {"keyboard", "tablet"} |-> IF d = "keyboard" THEN kSpiKeyboard ELSE kSpiTablet]

Raises(d) ==
    CASE d = "console" -> ConsoleIrq [] d = "block" -> BlockIrq [] d = "net" -> NetIrq
      [] d = "gpu" -> GpuIrq [] OTHER -> InputIrq[d]

(***************************************************************************)
(* Properties.                                                             *)
(***************************************************************************)
\* The type invariant.
ImageTypeOK ==
    /\ cfg \in Configs /\ at \in Steps \cup {"run", "thrown"}
    /\ mapped \in BOOLEAN /\ devices \in SUBSET {"console", "block", "net"}
    /\ wrote \in SUBSET [what : {"dtb", "kernel", "initrd"}, base : Nat, size : Nat]
    /\ tree.initrd \in SUBSET [start : Nat, end : Nat]
    /\ tree.nodes \in SUBSET [base : Nat, spi : Nat]

\* gpa_to_hva checks the first byte, and the size limits are fractions of RAM
\* that ignore the load addresses.  From 171 MiB of RAM on that is enough:
\* whatever Create copies, accepted or about to be refused for its magic,
\* stays inside the mapping.
EnoughRam == cfg.ram >= 171 * MiB
CopiesInsideRam ==
    EnoughRam =>
        \A w \in wrote : /\ mapped /\ w.base >= kGpaRamBase
                         /\ w.base + w.size <= kGpaRamBase + cfg.ram

\* The initrd is copied over a kernel of more than 124 MiB without a word; no
\* other two images can meet.
Apart(u, w) == u.base + u.size <= w.base \/ w.base + w.size <= u.base
ImagesApart ==
    cfg.kernel <= 124 * MiB => \A u, w \in wrote : u = w \/ Apart(u, w)

\* A guest that runs finds a kernel, a device tree, and the initrd exactly
\* where the tree says: the tree is made after everything it describes.  It
\* announces every device that exists, at an address that leads to it.
TreeTellsTruth ==
    at = "run" =>
        /\ {"kernel", "dtb"} \subseteq {w.what : w \in wrote}
        /\ tree.initrd = InitrdRange(wrote)
        /\ cfg.initrd > 0 => \E r \in tree.initrd : r.end = r.start + cfg.initrd
        /\ \A d \in devices : \E n \in tree.nodes : Route(n.base) = d /\ n.spi = Raises(d)

\* A guest that runs and follows its tree: every address of a node's region
\* goes to one device, that device exists, and the node's interrupt is the one
\* it raises.  The only node with nobody behind it is the block device's when
\* no image is configured; all of its registers read as zero.
NodesRouted ==
    at = "run" =>
        \A n \in tree.nodes : \A off \in 0..(kGpaVirtioStride - 1) :
            LET d == Route(n.base + off)
            IN \/ d \in devices /\ Raises(d) = n.spi
               \/ d = "absent" /\ n.spi = BlockIrq /\ ~cfg.image
==============================================================================
