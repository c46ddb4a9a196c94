---------------------------- MODULE PanicAction ----------------------------
(***************************************************************************)
(* The string handling of the panic action in src/lib/debug.c:             *)
(*                                                                         *)
(*  - the %e / %p substitution loop, written twice in the code: once in    *)
(*    fr_fault_setup() into the 512-byte static panic_action[] and once in *)
(*    fr_fault() into the stack buffer cmd[sizeof(panic_action) + 20];     *)
(*  - fr_fault_check_permissions(), which guesses the binary as the text   *)
(*    before the first space and refuses it when it is world writable.     *)
(*                                                                         *)
(* A C string is a sequence of characters (the bytes before the NUL).      *)
(* Characters are a small alphabet that contains the ones the code looks   *)
(* at: '%', 'e', 'p' and ' '.  The substitution is written as a recursive  *)
(* function (not a RECURSIVE operator) so that modules with proofs can     *)
(* extend this one.                                                        *)
(***************************************************************************)
EXTENDS Naturals, Sequences

CONSTANTS
    Chars,          \* the alphabet of the strings
    PACap,          \* sizeof(panic_action)            (512 in the code)
    CmdSlack,       \* sizeof(cmd) - sizeof(panic_action) (20 in the code)
    FileCap,        \* sizeof(filename) in the permission check (256)
    Pid,            \* the decimal text of getpid()
    WritableFiles   \* paths whose stat() reports S_IWOTH

\* The space character ' ', written "sp" in the model's strings.
SP == "sp"

ASSUME PanicActionAssumption ==
    /\ {"%", "e", "p", SP} \subseteq Chars
    /\ PACap \in Nat \ {0}
    /\ CmdSlack \in Nat
    /\ FileCap \in Nat \ {0}
    /\ Pid \in Seq(Chars \ {"%", SP})
    /\ WritableFiles \subseteq Seq(Chars)

\* sizeof(cmd) in fr_fault().
CmdCap == PACap + CmdSlack

\* The strings that fit a buffer of n bytes with their NUL.
StrFit(n) == UNION {[1 .. k -> Chars] : k \in 0 .. (n - 1)}

LesserOf(a, b) == IF a <= b THEN a ELSE b

(***************************************************************************)
(* Positions i where s[i], s[i+1] is the two-character token "%c", that is *)
(* where strstr(p, "%c") stops.  "%c" cannot overlap itself, so these are  *)
(* exactly the occurrences the left-to-right strstr loop consumes.         *)
(***************************************************************************)
Occ(s, c) == {i \in 1 .. (Len(s) - 1) : s[i] = "%" /\ s[i + 1] = c}

(***************************************************************************)
(* The text the loop produces when no buffer limit is hit: every "%c"      *)
(* replaced by r, every other character copied verbatim.                   *)
(***************************************************************************)
Expand(s, c, r) ==
    LET g[i \in 1 .. (Len(s) + 2)] ==
            IF i > Len(s) THEN << >>
            ELSE IF i \in Occ(s, c) THEN r \o g[i + 2]
            ELSE <<s[i]>> \o g[i + 1]
    IN  g[1]

(***************************************************************************)
(* Length of the tail strlcpy() copies after the last token: the loop has  *)
(* written Len(Expand) - TailLen characters before the final strlen check. *)
(***************************************************************************)
TailLen(s, c) ==
    IF Occ(s, c) = {} THEN Len(s)
    ELSE Len(s) - ((CHOOSE i \in Occ(s, c) : \A j \in Occ(s, c) : j <= i) + 1)

(***************************************************************************)
(* The bound checks of the loop ("left <= ret" on each snprintf, then      *)
(* "strlen(p) >= left"): since left only shrinks by what was written, the  *)
(* loop succeeds exactly when the whole expansion fits with its NUL.       *)
(***************************************************************************)
ExpandFits(s, c, r, cap) == Len(Expand(s, c, r)) < cap

\* Mutant: an overflowing snprintf is taken to write all "left" bytes, with
\* no room kept for the NUL.
SetupWriteNoNul(old, t, prog) ==
    LET full    == Expand(t, "e", prog)
        written == Len(full) - TailLen(t, "e")
    IN  IF ExpandFits(t, "e", prog, PACap) THEN full
        ELSE IF Occ(t, "e") = {} THEN old
        ELSE SubSeq(full, 1, LesserOf(PACap, written))

(***************************************************************************)
(* What fr_fault_setup() leaves in panic_action[] for template t and       *)
(* program name prog, when old was there before.  On success the full      *)
(* expansion.  On "Panic action too long":                                 *)
(*   - with no %e, nothing was written: the old contents stay;             *)
(*   - when a snprintf overflowed, it wrote PACap - 1 characters;          *)
(*   - when only the tail overflowed, the text up to the last %e stays.    *)
(* Both overflow cases are the prefix of length min(PACap - 1, written).   *)
(***************************************************************************)
SetupWrite(old, t, prog) ==
    LET full    == Expand(t, "e", prog)
        written == Len(full) - TailLen(t, "e")
    IN  IF ExpandFits(t, "e", prog, PACap) THEN full
        ELSE IF Occ(t, "e") = {} THEN old
        ELSE SubSeq(full, 1, LesserOf(PACap - 1, written))

\* fr_fault(): the %p loop into cmd[] either fits or calls fr_exit_now(1).
FaultFits(pa) == ExpandFits(pa, "p", Pid, CmdCap)

FaultCmd(pa) == Expand(pa, "p", Pid)

(***************************************************************************)
(* The path fr_fault_check_permissions() stats: the text before the first  *)
(* space (strchr), or the whole string when there is none.                 *)
(***************************************************************************)
Spaces(s) == {i \in 1 .. Len(s) : s[i] = SP}

FirstSpace(s) == CHOOSE i \in Spaces(s) : \A j \in Spaces(s) : i <= j

FirstWord(s) ==
    IF Spaces(s) = {} THEN s ELSE SubSeq(s, 1, FirstSpace(s) - 1)

(***************************************************************************)
(* fr_fault_check_permissions() returns 0: the first word fits filename[]  *)
(* (is_truncated is len >= size) and is not a world-writable file.  A path *)
(* that does not exist passes (stat fails).                                *)
(***************************************************************************)
PermOk(s) ==
    /\ Spaces(s) # {} => FirstSpace(s) - 1 < FileCap
    /\ FirstWord(s) \notin WritableFiles
=============================================================================
