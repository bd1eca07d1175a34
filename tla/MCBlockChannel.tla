-------------------------- MODULE MCBlockChannel --------------------------
(* Instances of the block channel for TLC.                                 *)
EXTENDS BlockChannel

Service(b, p, bounce, slots) == [backend |-> b, path |-> p, bounce |-> bounce, slots |-> slots]

\* The disk image over the engine, through the staging buffer.
Image == {Service("file", "dma", FALSE, 1)}

\* Every service there is: both backing stores, both paths, both modes.
AllServices ==
  Image \cup {Service("ram", "dma", FALSE, 0), Service("ram", "aperture", FALSE, 0), Service("ram", "dma", TRUE, 0),
                   Service("file", "dma", TRUE, 1),
                   Service("file", "aperture", FALSE, 1)}

\* One sector; two segments of a sector; two segments of half a sector.
Lists == {<<2>>, <<2, 2>>, <<1, 1>>}
===========================================================================
