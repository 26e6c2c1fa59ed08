---------------------------------- MODULE Text ----------------------------------
(***************************************************************************)
(* Text as the readers and writers of src/Nectere see it: a string is a    *)
(* sequence of characters, a position counts from 1, and the character     *)
(* after the last one is the terminating '\0', here the empty string.  The *)
(* functions are those of StringUtils.cpp, of Dp/StringUtils.cpp and of    *)
(* Dp/Result.cpp, the buffer texts are printed to.                         *)
(***************************************************************************)
EXTENDS Integers, Sequences

CharAt(str, pos) == IF pos \in 1..Len(str) THEN SubSeq(str, pos, pos) ELSE ""

(* std::string::substr from pos to the end. *)
From(str, pos) == SubSeq(str, pos, Len(str))

(* Is search at pos in str?                                                *)
StartWith(str, search, pos) ==
    /\ pos \in 1..(Len(str) - Len(search) + 1)
    /\ SubSeq(str, pos, pos + Len(search) - 1) = search

(* The first search at or after pos, 0 (std::string::npos) without one.    *)
RECURSIVE FindFrom(_, _, _)
FindFrom(str, search, pos) ==
    IF pos > Len(str) THEN 0
    ELSE IF StartWith(str, search, pos) THEN pos ELSE FindFrom(str, search, pos + 1)

Find(str, search) == FindFrom(str, search, 1)

(* The same, the end of str without one.                                   *)
RECURSIVE UpTo(_, _, _)
UpTo(str, search, pos) ==
    IF pos > Len(str) \/ StartWith(str, search, pos) THEN pos ELSE UpTo(str, search, pos + 1)

Includes(str, search) == Find(str, search) # 0

EndWith(str, search) == StartWith(str, search, Len(str) - Len(search) + 1)

Whitespace == {" ", "\t", "\n"}

(* The position of the first character from pos on that is no whitespace.  *)
RECURSIVE ByPassTrailing(_, _)
ByPassTrailing(content, pos) ==
    IF CharAt(content, pos) \in Whitespace THEN ByPassTrailing(content, pos + 1) ELSE pos

(* str up to its last character that is not whitespace:                    *)
(* substr(0, find_last_not_of(" \t\n") + 1).                               *)
RECURSIVE WithoutTrailing(_)
WithoutTrailing(str) ==
    IF str # "" /\ CharAt(str, Len(str)) \in Whitespace
    THEN WithoutTrailing(SubSeq(str, 1, Len(str) - 1)) ELSE str

(* The texts of a sequence, with separator between two of them.            *)
RECURSIVE Joined(_, _)
Joined(texts, separator) ==
    IF texts = <<>> THEN ""
    ELSE IF Len(texts) = 1 THEN Head(texts)
    ELSE Head(texts) \o separator \o Joined(Tail(texts), separator)

(* Every character of str, replaced by what Change makes of it.            *)
Each(str, Change(_)) == Joined([i \in 1..Len(str) |-> Change(CharAt(str, i))], "")

-----------------------------------------------------------------------------
(* Numbers in text.                                                        *)

Digits == <<"0", "1", "2", "3", "4", "5", "6", "7", "8", "9">>

IsDigits(str) == \A i \in 1..Len(str) : \E d \in 1..10 : CharAt(str, i) = Digits[d]

(* std::stoi reads the digits str begins with (it throws without one: the  *)
(* texts given to it here have one).                                       *)
RECURSIVE StoiFrom(_, _)
StoiFrom(str, read) ==
    IF str # "" /\ IsDigits(CharAt(str, 1))
    THEN StoiFrom(Tail(str), read * 10 + (CHOOSE d \in 1..10 : Digits[d] = CharAt(str, 1)) - 1)
    ELSE read

Stoi(str) == StoiFrom(str, 0)

Unsigned(str) == IF CharAt(str, 1) \in {"-", "+"} THEN Tail(str) ELSE str

Natural(str) == str # "" /\ IsDigits(str)

(* [0-9]*\.?[0-9]+                                                         *)
Decimal(str) ==
    \E dot \in 0..Len(str) :
        /\ IsDigits(SubSeq(str, 1, dot))
        /\ \/ Natural(From(str, dot + 1))
           \/ CharAt(str, dot + 1) = "." /\ Natural(From(str, dot + 2))

(* ^[-+]?[0-9]*\.?[0-9]+([eE][-+]?[0-9]+)?$                                *)
IsNumerical(str) ==
    \/ Decimal(Unsigned(str))
    \/ \E exp \in 1..Len(str) :
           /\ CharAt(str, exp) \in {"e", "E"}
           /\ Decimal(Unsigned(SubSeq(str, 1, exp - 1)))
           /\ Natural(Unsigned(From(str, exp + 1)))

IsBoolean(str) == str \in {"true", "false"}

-----------------------------------------------------------------------------
(* The buffer a text is printed to.  Its depth is a parameter of the       *)
(* printers, which append to it in order.                                  *)

Spaces == "                                "

Indent(format, depth) == SubSeq(Spaces, 1, depth * format.indentation)

LineBreak(format) == IF format.breakLine THEN "\n" ELSE ""
=============================================================================
