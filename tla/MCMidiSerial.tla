---------------------------- MODULE MCMidiSerial ----------------------------
(***************************************************************************)
(* A small instance of DIN MIDI reception for TLC: two messages of the     *)
(* same kind to confuse, one with a single data byte, one SysEx that fits  *)
(* and one that does not.                                                  *)
(***************************************************************************)
EXTENDS MidiSerial

MCVoices ==
  [status : {"note"}, len : {2}, id : {1, 2}] \cup {[status |-> "program", len |-> 1, id |-> 1]}

MCSysExes == [status : {"sysex"}, len : {1, 2}, id : {1}]
=============================================================================
