------------------------------ MODULE MCVirtio ------------------------------
(* Small instances of Virtio.                                              *)
EXTENDS Virtio, TLC

Desc(write, len) == [write |-> write, len |-> len]
Header == Desc(FALSE, 1)
StatusByte == Desc(TRUE, 1)
Chain(type, sector, data) ==
    [type |-> type, sector |-> sector,
     descs |-> <<Header>> \o data \o <<StatusByte>>, inTable |-> TRUE]

Unsupported == Chain("unsupported", 0, <<Desc(TRUE, SectorSize)>>)
TwoBuffers == Chain("out", 0, <<Desc(FALSE, SectorSize), Desc(FALSE, 1)>>)
BlockChains ==
    (0 :> {Chain("in", 1, <<Desc(TRUE, SectorSize)>>),          \* the last sector
           Chain("out", 2, <<Desc(FALSE, SectorSize)>>),        \* past the disk
           Chain("id", 0, <<Desc(TRUE, 2)>>),                   \* a long buffer
           Chain("flush", 0, <<>>)})
    @@ (1 :> {Unsupported, TwoBuffers, [Unsupported EXCEPT !.inTable = FALSE]})

QueueSizes == [block |-> {1, 2, 3}, net |-> {1}]
QueueParts == [block |-> {"desc", "avail", "used"}, net |-> {"rings"}]
QueueSize == [block |-> 2, net |-> 1]
Masks == [block |-> 0, net |-> 1]
NoMasks == [block |-> 0, net |-> 0]
BigFrames == {2}
=============================================================================
