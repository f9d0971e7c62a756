---------------------------- MODULE StringUtils ----------------------------
(***************************************************************************)
(* The functions of sutils/StringUtils.cpp, and a thread that calls one at *)
(* a time.  A string is a sequence of characters, and positions count from *)
(* 0 as they do in the code.  A function that changes its string, or looks *)
(* for a pattern again and again, takes a step for every turn of its loop. *)
(* What std::string and bsearch do is in SubStr, Find and Found.           *)
(***************************************************************************)
EXTENDS Integers, Sequences, FiniteSets

CONSTANTS NPOS,           \* string::npos, the largest size_t
          MaxText,        \* the longest string asked about
          MaxPattern,     \* the longest pattern and new text
          Letters,        \* characters that are in no class
          unicode_lowers, unicode_uppers

Increasing(table) == \A i, j \in 1..Len(table) : i < j => table[i] < table[j]

ASSUME StringUtilsAssumption ==
    /\ {NPOS, MaxText, MaxPattern} \subseteq Nat
    /\ MaxText * (MaxPattern + 1) < NPOS
    /\ unicode_lowers \in Seq(Nat) /\ unicode_uppers \in Seq(Nat)
    /\ Len(unicode_lowers) = Len(unicode_uppers)
    /\ Increasing(unicode_lowers)

VARIABLES
    call,       \* the call: the function f and its arguments
    pc,         \* "idle", "loop", or "done"
    text,       \* the string it changes
    pos,        \* index, textPos, or it: where in the string it is
    pieces,     \* the pieces found; of Replace, auxiliary
    start,      \* auxiliary: where the piece it is in began
    count,      \* replacedChars, numfound
    left,       \* iMaxStrings
    onSpace,
    origin,     \* auxiliary: from where each character is that it has passed
    answer      \* what is returned by a function that takes one step

loop    == <<text, pos, pieces, start, count, left, onSpace, origin>>
strings == <<call, pc, loop, answer>>

-----------------------------------------------------------------------------
(***************************************************************************)
(* Strings.                                                                *)
(***************************************************************************)
\* A newline stands for every other character of isspace.
Spaces == {"space", "tab", "newline"}
Blanks == {"space", "tab"}
Digits == {"0", "9"}

\* Unsigned arithmetic of a size_t.
Wrap(n) == n % (NPOS + 1)

Least(n, m) == IF n < m THEN n ELSE m

SubStr(str, first, n) ==
    SubSeq(str, first + 1, first + Least(n, Len(str) - first))

Occurs(str, pat, i) == \A k \in 1..Len(pat) : str[i + k] = pat[k]

Find(str, pat, from) ==
    LET at == {i \in from..(Len(str) - Len(pat)) : Occurs(str, pat, i)}
    IN  IF at = {} THEN NPOS ELSE CHOOSE i \in at : \A j \in at : i <= j

\* The first position from i on whose character is not in chars.
Skip(str, i, chars) ==
    CHOOSE j \in i..Len(str) :
       /\ \A k \in (i + 1)..j : str[k] \in chars
       /\ j < Len(str) => str[j + 1] \notin chars

\* The position after the last character that is not in chars.
SkipBack(str, chars) ==
    CHOOSE j \in 0..Len(str) :
       /\ \A k \in (j + 1)..Len(str) : str[k] \in chars
       /\ j > 0 => str[j] \notin chars

-----------------------------------------------------------------------------
(***************************************************************************)
(* The functions without a loop of their own.                              *)
(***************************************************************************)
Left(str, n)  == SubStr(str, 0, Least(n, Len(str)))
Right(str, n) == SubStr(str, Len(str) - Least(n, Len(str)), NPOS)

\* The sum may wrap, and the difference too when first is past the end.
MidCount(str, first, n) ==
    IF Wrap(first + n) > Len(str) THEN Wrap(Len(str) - first) ELSE n

Mid(str, first, n) ==
    IF first > Len(str) THEN <<>>
    ELSE SubStr(str, first, MidCount(str, first, n))

TrimLeft(str, chars)  == SubStr(str, Skip(str, 0, chars), NPOS)

\* (Mutant of TrimRight: the last character to keep goes too.)
TrimRightShort(str, chars) == SubStr(str, 0, SkipBack(str, chars) - 1)

TrimRight(str, chars) == SubStr(str, 0, SkipBack(str, chars))
Trim(str, chars)      == TrimRight(TrimLeft(str, chars), chars)

\* Spaces, a sign where there may be one, digits, spaces, and nothing more.
IsNumber(str, signs) ==
    LET begin  == Skip(str, 0, Spaces)
        first  == IF begin < Len(str) /\ str[begin + 1] \in signs THEN begin + 1 ELSE begin
        digits == Skip(str, first, Digits)
    IN  digits > first /\ Skip(str, digits, Spaces) = Len(str)

IsNaturalNumber(str) == IsNumber(str, {})
IsInteger(str)       == IsNumber(str, {"minus"})

\* An entry that is greater than all before it and smaller than all after it.
Separated(table, size, p) ==
    \A q \in 1..size : (q < p => table[q] < table[p]) /\ (q > p => table[p] < table[q])

\* What bsearch may find in the first size entries of a table: one of those that are
\* c, and where it need not come upon one of them, nothing.
Found(table, c, size) ==
    LET at == {p \in 1..size : table[p] = c}
    IN  IF \E p \in at : Separated(table, size, p) THEN at ELSE at \cup {0}

\* (Mutant of Mapped: the last entry of the table is never looked at.)
MappedShort(c, from, to) ==
    {IF p = 0 THEN c ELSE to[p] : p \in Found(from, c, Len(from) - 1)}

Mapped(c, from, to) ==
    {IF p = 0 THEN c ELSE to[p] : p \in Found(from, c, Len(from))}

tolowerUnicode(c) == Mapped(c, unicode_uppers, unicode_lowers)
toupperUnicode(c) == Mapped(c, unicode_lowers, unicode_uppers)

-----------------------------------------------------------------------------
(***************************************************************************)
(* The questions.                                                          *)
(***************************************************************************)
Texts(alphabet, n) == UNION {[1..k -> alphabet] : k \in 0..n}

Begin(question, turns) ==
    /\ pc' = IF turns THEN "loop" ELSE "done"
    /\ call' = question
    /\ UNCHANGED <<start, count, onSpace, origin>>

Answer(question, reply) ==
    /\ Begin(question, FALSE)
    /\ answer' = reply
    /\ UNCHANGED <<text, pos, pieces, left>>

AskReplace(f, str, old, new) ==
    /\ f = "ReplaceChar" => Len(old) = 1 /\ Len(new) = 1
    /\ Begin([f |-> f, str |-> str, old |-> old, new |-> new], old # <<>>)
    /\ text' = str
    /\ UNCHANGED <<pos, pieces, left, answer>>

\* (Mutant of AskSplit: the limit is counted down after the test.)
AskSplitOneMore(str, pat, max) ==
    /\ Begin([f |-> "Split", str |-> str, pat |-> pat, max |-> max],
             str # <<>> /\ pat # <<>>)
    /\ pieces' = IF str # <<>> /\ pat = <<>> THEN <<str>> ELSE <<>>
    /\ left' = Wrap(max + 1)
    /\ UNCHANGED <<text, pos, answer>>

AskSplit(str, pat, max) ==
    /\ Begin([f |-> "Split", str |-> str, pat |-> pat, max |-> max],
             str # <<>> /\ pat # <<>>)
    /\ pieces' = IF str # <<>> /\ pat = <<>> THEN <<str>> ELSE <<>>
    /\ left' = max
    /\ UNCHANGED <<text, pos, answer>>

AskFindNumber(str, pat) ==
    /\ Begin([f |-> "FindNumber", str |-> str, pat |-> pat], TRUE)
    /\ pos' = Find(str, pat, 0)
    /\ UNCHANGED <<text, pieces, left, answer>>

AskClean(str) ==
    /\ Begin([f |-> "Clean", str |-> str], TRUE)
    /\ text' = str
    /\ UNCHANGED <<pos, pieces, left, answer>>

AskSlice(str, first, n) ==
    Answer([f |-> "Slice", str |-> str, first |-> first, count |-> n],
           [left |-> Left(str, n), mid |-> Mid(str, first, n), right |-> Right(str, n)])

AskTrim(str, chars) ==
    Answer([f |-> "Trim", str |-> str, chars |-> chars],
           [left |-> TrimLeft(str, chars), right |-> TrimRight(str, chars),
            both |-> Trim(str, chars)])

AskNumber(str) ==
    Answer([f |-> "Number", str |-> str],
           [natural |-> IsNaturalNumber(str), integer |-> IsInteger(str)])

AskCase(c) ==
    \E upper \in toupperUnicode(c), lower \in tolowerUnicode(c) :
       Answer([f |-> "Case", c |-> c], [upper |-> upper, lower |-> lower])

Forget ==
    /\ pc = "done" /\ pc' = "idle"
    /\ call' = [f |-> "none"] /\ answer' = call'
    /\ text' = <<>> /\ pos' = 0 /\ pieces' = <<>> /\ start' = 0
    /\ count' = 0 /\ left' = 0 /\ onSpace' = FALSE /\ origin' = <<>>

-----------------------------------------------------------------------------
(***************************************************************************)
(* The loops.                                                              *)
(***************************************************************************)
Turn(f) == pc = "loop" /\ call.f = f

\* Of a string and of a wide string.
ReplaceTurn ==
    /\ Turn("Replace") /\ pos < Len(text)
    /\ LET index == Find(text, call.old, pos)
       IN  /\ index # NPOS
           /\ pieces' = Append(pieces, SubStr(text, pos, index - pos))
           /\ text' = SubStr(text, 0, index) \o call.new
                        \o SubStr(text, index + Len(call.old), NPOS)
           /\ pos' = index + Len(call.new) /\ start' = pos'
    /\ count' = count + 1
    /\ UNCHANGED <<call, pc, left, onSpace, origin, answer>>

\* The other Replace looks at one character after the other.
ReplaceCharTurn ==
    /\ Turn("ReplaceChar") /\ pos < Len(text)
    /\ pos' = pos + 1
    /\ IF text[pos + 1] = call.old[1]
       THEN /\ text' = [text EXCEPT ![pos + 1] = call.new[1]]
            /\ count' = count + 1
            /\ pieces' = Append(pieces, SubStr(text, start, pos - start)) /\ start' = pos'
       ELSE UNCHANGED <<text, count, pieces, start>>
    /\ UNCHANGED <<call, pc, left, onSpace, origin, answer>>

ReplaceEnds ==
    /\ \/ Turn("Replace") /\ (pos >= Len(text) \/ Find(text, call.old, pos) = NPOS)
       \/ Turn("ReplaceChar") /\ pos = Len(text)
    /\ pieces' = Append(pieces, SubStr(text, start, NPOS))
    /\ pc' = "done"
    /\ UNCHANGED <<call, text, pos, start, count, left, onSpace, origin, answer>>

\* With a string and with a character for the pattern.  The limit counts down
\* from 0 through the largest number there is.
SplitTurn ==
    /\ Turn("Split")
    /\ left' = Wrap(left - 1)
    /\ LET nextDelim == IF left' = 0 THEN NPOS ELSE Find(call.str, call.pat, pos)
       IN  /\ pieces' = Append(pieces, SubStr(call.str, pos, nextDelim - pos))
           /\ pos' = IF left' = 0 THEN pos ELSE Wrap(nextDelim + Len(call.pat))
           /\ pc' = IF nextDelim = NPOS THEN "done" ELSE "loop"
    /\ UNCHANGED <<call, text, start, count, onSpace, origin, answer>>

FindNumberTurn ==
    /\ Turn("FindNumber")
    /\ IF pos = NPOS THEN pc' = "done" /\ UNCHANGED <<count, pos>>
       ELSE /\ count' = count + 1 /\ pos' = Find(call.str, call.pat, pos + 1)
            /\ UNCHANGED pc
    /\ UNCHANGED <<call, text, pieces, start, left, onSpace, origin, answer>>

\* (Mutant of CleanTurn: a space after a space is not erased.)
CleanTurnContinues ==
    /\ Turn("Clean") /\ pos < Len(text)
    /\ LET isSpace == text[pos + 1] \in Blanks
       IN  IF isSpace /\ onSpace
           THEN UNCHANGED <<text, pos, onSpace, origin>>
           ELSE /\ text' = [text EXCEPT ![pos + 1] = IF isSpace THEN "space" ELSE @]
                /\ pos' = pos + 1 /\ onSpace' = isSpace
                /\ origin' = Append(origin, pos + 1 + Len(call.str) - Len(text))
    /\ UNCHANGED <<call, pc, pieces, start, count, left, answer>>

\* A tab becomes a space, and a space after a space is erased.
CleanTurn ==
    /\ Turn("Clean") /\ pos < Len(text)
    /\ LET isSpace == text[pos + 1] \in Blanks
       IN  IF isSpace /\ onSpace
           THEN /\ text' = SubStr(text, 0, pos) \o SubStr(text, pos + 1, NPOS)
                /\ UNCHANGED <<pos, onSpace, origin>>
           ELSE /\ text' = [text EXCEPT ![pos + 1] = IF isSpace THEN "space" ELSE @]
                /\ pos' = pos + 1 /\ onSpace' = isSpace
                /\ origin' = Append(origin, pos + 1 + Len(call.str) - Len(text))
    /\ UNCHANGED <<call, pc, pieces, start, count, left, answer>>

CleanEnds ==
    /\ Turn("Clean") /\ pos = Len(text)
    /\ pc' = "done"
    /\ UNCHANGED <<call, loop, answer>>

-----------------------------------------------------------------------------
StringsInit ==
    /\ call = [f |-> "none"] /\ pc = "idle" /\ answer = call
    /\ text = <<>> /\ pos = 0 /\ pieces = <<>> /\ start = 0
    /\ count = 0 /\ left = 0 /\ onSpace = FALSE /\ origin = <<>>

Ask ==
    /\ pc = "idle"
    /\ \/ \E str \in Texts(Letters, MaxText) :
             \/ \E pat \in Texts(Letters, MaxPattern) :
                   \/ \E f \in {"Replace", "ReplaceChar"}, new \in Texts(Letters, MaxPattern) :
                         AskReplace(f, str, pat, new)
                   \/ \E max \in 0..NPOS : AskSplit(str, pat, max)
                   \/ AskFindNumber(str, pat)
             \/ \E first, number \in 0..NPOS : AskSlice(str, first, number)
       \/ \E str \in Texts(Letters \cup Spaces, MaxText) :
             \/ \E chars \in {Letters, Spaces} : AskTrim(str, chars)
             \/ AskClean(str)
       \/ \E str \in Texts(Spaces \cup Digits \cup {"minus"}, MaxText) : AskNumber(str)
       \/ \E table \in {unicode_lowers, unicode_uppers} :
             \E i \in 1..Len(table) : AskCase(table[i])

Turns ==
    \/ ReplaceTurn \/ ReplaceCharTurn \/ ReplaceEnds
    \/ SplitTurn \/ FindNumberTurn \/ CleanTurn \/ CleanEnds

StringsNext == Ask \/ Turns \/ Forget

StringsFairness == WF_<<pc, loop>>(Turns)

-----------------------------------------------------------------------------
(***************************************************************************)
(* Properties.                                                             *)
(***************************************************************************)

\* The parts of a text, each followed by glue.
Glued(parts, glue) ==
    LET upTo[k \in 0..Len(parts)] ==
            IF k = 0 THEN <<>> ELSE upTo[k - 1] \o parts[k] \o glue
    IN  upTo[Len(parts)]

\* A part with the pattern after it has no earlier occurrence of the pattern.
Leftmost(parts, pat) ==
    \A i \in 1..(Len(parts) - 1) : Find(parts[i] \o pat, pat, 0) = Len(parts[i])

Remainder(parts, pat) == Find(parts[Len(parts)], pat, 0)

ReplaceExact ==
    IF call.old = <<>> THEN text = call.str /\ count = 0
    ELSE /\ Glued(pieces, call.old) = call.str \o call.old
         /\ Glued(pieces, call.new) = text \o call.new
         /\ count = Len(pieces) - 1
         /\ Leftmost(pieces, call.old) /\ Remainder(pieces, call.old) = NPOS

SplitExact ==
    IF call.str = <<>> THEN pieces = <<>>
    ELSE IF call.pat = <<>> THEN pieces = <<call.str>>
    ELSE /\ Glued(pieces, call.pat) = call.str \o call.pat
         /\ Leftmost(pieces, call.pat)
         /\ call.max > 0 => Len(pieces) <= call.max
         /\ Len(pieces) = call.max \/ Remainder(pieces, call.pat) = NPOS

\* Split and Replace find the same occurrences of a pattern, the leftmost that do
\* not overlap.  The pieces joined with the pattern are the string; joined with
\* the new text, which is not searched, they are what Replace makes of it.  Split
\* makes no more pieces than it may, of which the last may hold the pattern.
\* FindNumber counts every occurrence, overlapping ones too.
SplitReplaceJoin ==
    pc = "done" =>
       /\ call.f \in {"Replace", "ReplaceChar"} => ReplaceExact
       /\ call.f = "Split" => SplitExact
       /\ call.f = "FindNumber" =>
             count = Cardinality({i \in 0..(Len(call.str) - Len(call.pat)) :
                                    Occurs(call.str, call.pat, i)})

\* ToUpper gives every letter of unicode_lowers its own upper letter and leaves the
\* others alone.  unicode_uppers is not sorted, so that ToLower may miss some of its
\* letters; it misses none that is greater than all before it and smaller than all
\* after it, and never gives a letter another's.
CaseTablesAgree ==
    LET c == call.c
        Places(from)    == {i \in 1..Len(from) : from[i] = c}
        Pairs(from, to) == {to[i] : i \in Places(from)}
    IN  /\ answer.upper \in (IF Places(unicode_lowers) # {}
                             THEN Pairs(unicode_lowers, unicode_uppers) ELSE {c})
        /\ answer.lower \in Pairs(unicode_uppers, unicode_lowers) \cup {c}
        /\ \A i \in Places(unicode_uppers) :
              Separated(unicode_uppers, Len(unicode_uppers), i) =>
                 answer.lower = unicode_lowers[i]

\* Left, Mid and Right return the characters they name and no others, whatever
\* wraps in Mid's sums, and Mid's assertion holds.
SlicesExact ==
    LET n == Len(call.str)
        Chars(from, to) == [i \in 1..(to - from) |-> call.str[from + i]]
    IN  /\ answer.left = Chars(0, Least(call.count, n))
        /\ answer.right = Chars(n - Least(call.count, n), n)
        /\ IF call.first > n THEN answer.mid = <<>>
           ELSE /\ answer.mid = Chars(call.first, Least(n, call.first + call.count))
                /\ Wrap(call.first + MidCount(call.str, call.first, call.count)) <= n

\* What Trim takes away are characters to trim, and it leaves none of them at the
\* end it looks at.
TrimsExact ==
    /\ \E i \in 0..Len(call.str) :
          /\ SubStr(call.str, i, NPOS) = answer.left
          /\ \A k \in 1..i : call.str[k] \in call.chars
    /\ \E i \in 0..Len(call.str) :
          /\ SubStr(call.str, 0, i) = answer.right
          /\ \A k \in (i + 1)..Len(call.str) : call.str[k] \in call.chars
    /\ answer.left # <<>> => answer.left[1] \notin call.chars
    /\ answer.right # <<>> => answer.right[Len(answer.right)] \notin call.chars
    /\ answer.both = TrimLeft(answer.right, call.chars)

\* RemoveDuplicatedSpacesAndTabs leaves one space for every run of spaces and
\* tabs, the first of them, and every other character, in order.
CleanExact ==
    /\ \A i \in 1..Len(text) :
          text[i] = IF call.str[origin[i]] \in Blanks THEN "space" ELSE call.str[origin[i]]
    /\ \A i \in 1..(Len(text) - 1) :
          origin[i] < origin[i + 1] /\ (text[i] # "space" \/ text[i + 1] # "space")
    /\ \A k \in 1..Len(call.str) :
          \/ \E i \in 1..Len(text) : origin[i] = k
          \/ k > 1 /\ call.str[k - 1] \in Blanks /\ call.str[k] \in Blanks

\* A natural number is spaces, digits, spaces and nothing else.  An integer may have
\* a sign before the digits; of several, which the header allows and the code does
\* not, nothing is said; a string with anything else in it is no integer.
NumbersExact ==
    LET n == Len(call.str)
        Are(chars, from, to) == \A k \in (from + 1)..to : call.str[k] \in chars
        Matches(signs) ==
            \E i, m, j \in 0..n :
               /\ i <= m /\ m <= i + signs /\ m < j
               /\ Are(Spaces, 0, i) /\ Are({"minus"}, i, m)
               /\ Are(Digits, m, j) /\ Are(Spaces, j, n)
    IN  /\ answer.natural <=> Matches(0)
        /\ Matches(1) => answer.integer
        /\ answer.integer => Matches(n)

\* The other functions keep what they are to keep of a text: see the parts.
TextKept ==
    pc = "done" =>
       /\ call.f = "Case"   => CaseTablesAgree
       /\ call.f = "Slice"  => SlicesExact
       /\ call.f = "Trim"   => TrimsExact
       /\ call.f = "Clean"  => CleanExact
       /\ call.f = "Number" => NumbersExact

\* A loop ends: what it puts in it does not search again.
LoopsEnd == pc = "loop" ~> pc = "done"
=============================================================================
