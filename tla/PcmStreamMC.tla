---------------------------- MODULE PcmStreamMC ----------------------------
(* Small instances of PcmStream for TLC.                                   *)
EXTENDS PcmStream

NoTrack == {}
SecondTrack == {2}
NoSeek == {}
SeekBack == {1}
NoFault == {}
CodecFaults == {"open_fails", "decode_error"}
SlowOpen == {"open_timeout"}
SlowClose == {"close_timeout"}
SlowSeek == {"seek_timeout"}
=============================================================================
