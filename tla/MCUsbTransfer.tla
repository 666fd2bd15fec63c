---------------------------- MODULE MCUsbTransfer ----------------------------
(***************************************************************************)
(* UsbTransfer with reads into an aligned buffer and into buffers that hold *)
(* a page boundary after one or two units, and writes of both kinds.       *)
(***************************************************************************)
EXTENDS UsbTransfer

Buffer(dir, size, lead) == [dir |-> dir, size |-> size, lead |-> lead]
MCCalls ==
    {Buffer("read", 2, 0), Buffer("read", 3, 1), Buffer("read", 3, 2),
     Buffer("write", 2, 0), Buffer("write", 3, 1)}
=============================================================================
