---------------------------- MODULE MCApplyProfile ----------------------------
(* Instances of ApplyProfile for TLC: a folder with two files of one stem, one *)
(* of them already in the profile's container, and a third file.               *)
EXTENDS ApplyProfile

File(dir, stem, ext) == [dir |-> dir, stem |-> stem, ext |-> ext]

Music == {File("in", "a", "wav"), File("in", "a", "flac"), File("in", "b", "wav")}

\* One conforming file, where the number of runs and failures matters more.
Single == {File("in", "a", "wav")}
=============================================================================
