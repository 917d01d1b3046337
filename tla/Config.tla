------------------------------- MODULE Config --------------------------------
(***************************************************************************)
(* ServerClass::_loadConfig and _readConfig: how pls.conf is read.  A file *)
(* is a sequence of lines, a line a sequence of words; the characters that *)
(* the reader looks for, "#" and "=", are words of their own.  The fields  *)
(* of PlsConfig keep their widths.                                         *)
(***************************************************************************)
EXTENDS Integers, Sequences, SequencesExt

CONSTANT Number        (* what the words that are numbers stand for         *)

ASSUME NumberAssumption == \A w \in DOMAIN Number : Number[w] \in Int

Words == {"dbName", "dbUser", "dbPass", "dnsServer", "sqlDebug", "dbHost"}

IsComment(line) == line # << >> /\ line[1] = "#"

(* line.find('='): 0 when there is none.                                   *)
Equals_mutant(line) == SelectLastInSeq(line, LAMBDA w : w = "=")
Equals(line) == SelectInSeq(line, LAMBDA w : w = "=")

(* The line is not a comment and has this key in front of its first "=".   *)
Sets(line, key) ==
  ~IsComment(line) /\ Equals(line) # 0 /\ SubSeq(line, 1, Equals(line) - 1) = <<key>>

(* What the first such line has behind it; "NULL" when there is none.      *)
ReadConfig(lines, key) ==
  LET first == SelectInSeq(lines, LAMBDA line : Sets(line, key))
  IN  IF first = 0 THEN <<"NULL">>
      ELSE SubSeq(lines[first], Equals(lines[first]) + 1, Len(lines[first]))

(* atoi: the number the text begins with, after blanks; 0 when it does not. *)
NumberAt(words) ==
  IF words # << >> /\ words[1] \in DOMAIN Number THEN Number[words[1]] ELSE 0
Atoi(text) == NumberAt(SelectSeq(text, LAMBDA w : w # " "))

(* int to unsigned short; Short is the width that MysqlClass::connect      *)
(* takes, used only by the slip of a field that has it.                    *)
Short(n) == IF n < 32768 THEN n ELSE n - 65536
UnsignedShort_mutant(n) == Short(n % 65536)
UnsignedShort(n) == n % 65536

LoadConfig(lines) ==
  [threads      |-> Atoi(ReadConfig(lines, "threads")),
   dbPort       |-> UnsignedShort(Atoi(ReadConfig(lines, "dbPort"))),
   listenPort   |-> UnsignedShort(Atoi(ReadConfig(lines, "listenPort"))),
   clientMaxNum |-> UnsignedShort(Atoi(ReadConfig(lines, "clientMaxNum"))),
   words        |-> [key \in Words |-> ReadConfig(lines, key)]]
=============================================================================
