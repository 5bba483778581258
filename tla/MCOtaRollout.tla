---------------------------- MODULE MCOtaRollout -----------------------------
(***************************************************************************)
(* Three files, esp32-fountain-10.0, fountain-2.1 and fountain-2.1.0, and  *)
(* notes.bin, which is no image; a device that runs 1.0.0 or 3.0-rc.       *)
(***************************************************************************)
EXTENDS OtaRollout

MCFileNames == << << <<32>>, <<10, 0>> >>, << <<2, 1>> >>, << <<2, 1, 0>> >>, <<>> >>
MCCurrent == {<<1, 0, 0>>, <<3, NonNumber>>}
==============================================================================
