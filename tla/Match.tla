--------------------------------- MODULE Match ---------------------------------
(***************************************************************************)
(* The substring matcher of the search panel (internal/match): a query is  *)
(* split at spaces into terms, and a command matches if it contains every  *)
(* term.  A term with an upper-case letter is matched exactly; one without *)
(* ignores case, by bytes if the term is pure ASCII and by unicode.ToLower *)
(* on both sides otherwise.                                                *)
(*                                                                         *)
(* A text is a sequence of characters.  What the matcher can tell about a  *)
(* character is which of the sets below it is in and what LowerOf makes of *)
(* it; LowerOf may map a character outside ASCII to an ASCII letter, as    *)
(* unicode.ToLower does with the Kelvin sign.                              *)
(***************************************************************************)
EXTENDS Naturals, Sequences

CONSTANTS
    Chars,    \* the characters of commands and queries
    Space,    \* the one that separates terms
    Ascii,    \* those below utf8.RuneSelf
    Upper,    \* those that unicode.IsUpper accepts
    LowerOf   \* unicode.ToLower, as a function

\* Lower-casing keeps ASCII in ASCII and leaves an ASCII character that is not
\* an upper-case letter alone.
ASSUME CharsAssumption ==
    /\ Space \in Chars /\ Ascii \subseteq Chars /\ Upper \subseteq Chars
    /\ LowerOf \in [Chars -> Chars]
    /\ \A c \in Ascii : LowerOf[c] \in Ascii
    /\ \A c \in Ascii \ Upper : LowerOf[c] = c

Text == Seq(Chars)

\* The spans of strings.Fields: maximal runs of characters other than Space.
Spans(q) ==
    {sp \in (1..Len(q)) \X (1..Len(q)) :
        /\ sp[1] <= sp[2]
        /\ \A k \in sp[1]..sp[2] : q[k] # Space
        /\ sp[1] = 1 \/ q[sp[1] - 1] = Space
        /\ sp[2] = Len(q) \/ q[sp[2] + 1] = Space}

Terms(q) == {SubSeq(q, sp[1], sp[2]) : sp \in Spans(q)}

HasUpper(t) == \E k \in 1..Len(t) : t[k] \in Upper

IsAscii(t) == \A k \in 1..Len(t) : t[k] \in Ascii

\* The byte scan's folding: A to Z only.
AsciiLower(c) == IF c \in Ascii \cap Upper THEN LowerOf[c] ELSE c

\* strings.Contains.
Contains(s, t) ==
    \E i \in 0..Len(s) : i + Len(t) <= Len(s) /\ \A k \in 1..Len(t) : s[i + k] = t[k]

\* asciiFoldIndex finds an occurrence.
ContainsFoldAscii(s, t) ==
    \E i \in 0..Len(s) : i + Len(t) <= Len(s) /\ \A k \in 1..Len(t) : AsciiLower(s[i + k]) = LowerOf[t[k]]

\* strings.Contains on the two lower-cased texts.
ContainsFold(s, t) ==
    \E i \in 0..Len(s) : i + Len(t) <= Len(s) /\ \A k \in 1..Len(t) : LowerOf[s[i + k]] = LowerOf[t[k]]

TermMatches(t, s) ==
    \/ HasUpper(t) /\ Contains(s, t)
    \/ ~HasUpper(t) /\ IsAscii(t) /\ ContainsFoldAscii(s, t)
    \/ ~HasUpper(t) /\ ~IsAscii(t) /\ ContainsFold(s, t)

\* Parse and Query.Match: every term occurs.
Matches(q, s) == \A t \in Terms(q) : TermMatches(t, s)

\* strings.HasPrefix(q, p)
HasPrefix(q, p) == Len(p) <= Len(q) /\ \A k \in 1..Len(p) : q[k] = p[k]

\* No character outside ASCII is lower-cased into ASCII.
PlainFolding == \A c \in Chars \ Ascii : LowerOf[c] \notin Ascii
===============================================================================
