------------------------------ MODULE SaveFile ------------------------------
(***************************************************************************)
(* The append-only save files (mysqlda.save, mysqlda.<class>.save).        *)
(*                                                                         *)
(* A record is appended by six write() calls: date and time, blank, first  *)
(* name, blank, second name, newline.  LoadConfig reads the file back with *)
(* fscanf("%*s%*s%s%s\n"), which counts words and knows nothing of lines.  *)
(* Names hold no white space, none looks like a date or a time, and no two *)
(* of a library, a group and an object have the same name: a record that is*)
(* read with its words shifted is then a wrong one.                        *)
(* What a file holds is then exactly its complete records and the state of *)
(* its last bytes:                                                         *)
(*   "clean"    the last record ends in a newline (or the file is empty);  *)
(*   "noeol"    the last record is complete but for its newline;           *)
(*   "torn"     bytes of an incomplete record follow the last complete one:*)
(*              fscanf meets the end of the file inside it and drops it;   *)
(*   "garbled"  text was appended behind a torn or a noeol tail, the words *)
(*              no longer pair up, and reading reaches a record whose      *)
(*              second name is no group or library: LoadConfig fails there.*)
(***************************************************************************)
EXTENDS Sequences, SequencesExt

Tails == {"clean", "noeol", "torn", "garbled"}

File(R) == [records : Seq(R), tail : Tails]

EmptyFile == [records |-> <<>>, tail |-> "clean"]

(* Mutant: the file is truncated when it is opened. *)
Overwritten(f, r) == [records |-> <<r>>, tail |-> "clean"]

(* The file after the six writes of record r: a newline is only there when *)
(* the record before was finished.                                         *)
Appended(f, r) ==
  CASE f.tail = "clean" -> [f EXCEPT !.records = Append(@, r)]
    [] f.tail = "noeol" -> [records |-> Front(f.records), tail |-> "garbled"]
    [] OTHER            -> [f EXCEPT !.tail = "garbled"]

(* The file after the date, the time and the first name of a record when   *)
(* the second name is not there to be written.                             *)
TornBy(f) ==
  CASE f.tail = "clean" -> [f EXCEPT !.tail = "torn"]
    [] f.tail = "noeol" -> [records |-> Front(f.records), tail |-> "garbled"]
    [] OTHER            -> [f EXCEPT !.tail = "garbled"]

(* The files a kill between the open and the last write can leave.         *)
CutAppends(f, r) ==
  CASE f.tail = "clean" -> {f, [f EXCEPT !.tail = "torn"],
                            [records |-> Append(f.records, r), tail |-> "noeol"]}
    [] f.tail = "noeol" -> {f, Appended(f, r)}
    [] f.tail = "torn"  -> {f, Appended(f, r)}
    [] OTHER            -> {f}
=============================================================================
