---------------------------- MODULE MCBootImage ----------------------------
(* A finite set of configurations for BootImage: sizes around its limits. *)
EXTENDS BootImage

Rams    == {0, 8 * MiB, 129 * MiB, 170 * MiB, 171 * MiB, 512 * MiB}
Kernels == {0, 1, 64 * MiB, 124 * MiB, 124 * MiB + 1, 200 * MiB}
Initrds == {0, 1, 42 * MiB + 524288, 43 * MiB, 128 * MiB}   \* a quarter of 170 MiB
Small == [ram : Rams, image : BOOLEAN, net : BOOLEAN, kernel : Kernels,
          magic : BOOLEAN, initrd : Initrds, dtb : {2048, 4 * MiB, 4 * MiB + 1}]

MCInit == \E c \in Small : Start(c)
MCSpec == MCInit /\ [][ImageNext]_imageVars
============================================================================
