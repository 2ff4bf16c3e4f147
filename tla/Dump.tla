-------------------------------- MODULE Dump --------------------------------
(***************************************************************************)
(* u6a_dump_mnemonics and u6a_dump_data: what -S writes instead of the     *)
(* bytecode.  A line is a record of the fields that are printed on it.     *)
(***************************************************************************)
EXTENDS Defs, SequencesExt

BytesPerLine == 16

(* u6a_mnemonic_op, u6a_mnemonic_fn and u6a_mnemonic_ch.  To ask them for  *)
(* anything else is undefined behaviour, which gives no name here.         *)
OpNames == [app |-> "APP", la |-> "LA", sa |-> "SA", del |-> "DEL", lc |-> "LC",
            xch |-> "XCH"]

FnNames == [fn \in (TokenFns \ {"app"}) \cup {""} |->
              CASE fn = ""    -> "acc" [] fn = "in"  -> "@" [] fn = "pipe" -> "|"
                [] fn = "out" -> "."   [] fn = "cmp" -> "?" [] OTHER       -> fn]

(* A character by itself, <SP> or <LF>.                                    *)
ChNames == [c \in (32..126) \cup {10} |->
              CASE c = 32 -> <<60, 83, 80, 62>>
                [] c = 10 -> <<60, 76, 70, 62>>
                [] OTHER  -> <<c>>]

Name(names, x, none) == IF x \in DOMAIN names THEN names[x] ELSE none

Operand(t) == [fn |-> Name(FnNames, t.fn, ""),
               ch |-> IF t.fn \in {"out", "cmp"} THEN Name(ChNames, t.ch, <<>>)
                      ELSE <<>>]

Line(n, op, args) == [at |-> n, op |-> op, args |-> args]

MnemonicRaw(n, ins) ==
  Line(n, Name(OpNames, ins.op, ""),
       CASE HasOffset(ins)   -> <<ins.offset>>
         [] ins.op = "app"   -> <<Operand(ins.first), Operand(ins.second)>>
         [] OTHER            -> <<>>)

(* write_mnemonic_ins; the only extended opcode, print, goes with lc.      *)
Mnemonic(n, ins) ==
  Line(n, Name(OpNames, ins.op, ""),
       CASE HasOffset(ins)   -> <<Swap32(ins.offset)>>
         [] ins.op = "app"   -> <<Operand(ins.first), Operand(ins.second)>>
         [] OTHER            -> <<>>)

Mnemonics(text) == [n \in DOMAIN text |-> Mnemonic(n - 1, text[n])]

(* u6a_hexdump, with the characters u6a_dump_data has made of the bytes.   *)
Formatted(data) == [n \in DOMAIN data |-> IF data[n] \in 32..126 THEN data[n] ELSE 46]

(* The bytes of a line go in pairs, and a last one by itself, into columns *)
(* five characters wide; blanks fill up the last line.                     *)
Pairs(bytes) == [p \in 1..((Len(bytes) + 1) \div 2) |->
                   SubSeq(bytes, 2 * p - 1, IF 2 * p <= Len(bytes) THEN 2 * p ELSE Len(bytes))]

Blanks(remaining) == ((BytesPerLine - remaining) \div 2) * 5

LinesOf(length) == (length + BytesPerLine - 1) \div BytesPerLine

Hexdump(data) ==
  [l \in 1..LinesOf(Len(data)) |->
    LET idx   == (l - 1) * BytesPerLine
        end   == IF Len(data) - idx < BytesPerLine THEN Len(data)
                 ELSE idx + BytesPerLine
    IN  [at     |-> idx,
         hex    |-> Pairs(SubSeq(data, idx + 1, end)),
         blanks |-> Blanks(end - idx),
         shown  |-> SubSeq(Formatted(data), idx + 1, end)]]

-----------------------------------------------------------------------------
(* What a reader makes of a dump.                                          *)

NamedBy(names, y) == {x \in DOMAIN names : names[x] = y}

ReadsTok(o, t) == /\ NamedBy(FnNames, o.fn) = {t.fn}
                  /\ t.fn \in {"out", "cmp"} => NamedBy(ChNames, o.ch) = {t.ch}

ReadsIns(line, ins) ==
  /\ NamedBy(OpNames, line.op) = {ins.op}
  /\ ins.op = "app" => /\ ReadsTok(line.args[1], ins.first)
                       /\ ReadsTok(line.args[2], ins.second)

(* The lines tell every instruction, and no table was asked for a name it  *)
(* does not have or gives two things the same name.  An SA or a DEL shows  *)
(* the number of the line after an LA, an LC the place of a string.        *)
TellsText(lines, text, data) ==
  /\ Len(lines) = Len(text)
  /\ \A n \in DOMAIN text :
       LET arg == lines[n].args[1]
       IN  /\ lines[n].at = n - 1
           /\ ReadsIns(lines[n], text[n])
           /\ text[n].op \in {"sa", "del"} =>
                arg \in (n + 1)..Len(lines) /\ lines[arg].op = "LA"
           /\ text[n].op = "lc" =>
                arg < Len(data) /\ (arg = 0 \/ data[arg] = NUL)

(* Every byte is there once, at the place its line says, and the           *)
(* characters begin in the same column on every line.                      *)
Columns(line) == 5 * Len(line.hex) + line.blanks

TellsData(lines, data) ==
  /\ FlattenSeq([l \in DOMAIN lines |-> FlattenSeq(lines[l].hex)]) = data
  /\ FlattenSeq([l \in DOMAIN lines |-> lines[l].shown]) = Formatted(data)
  /\ \A l \in DOMAIN lines : /\ Columns(lines[l]) = 5 * (BytesPerLine \div 2)
                             /\ lines[l].at = (l - 1) * BytesPerLine

=============================================================================
