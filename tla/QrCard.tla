------------------------------ MODULE QrCard ------------------------------
(* The title under a QR code, qr.ts: it is wrapped character by character,    *)
(* shrunk until two lines hold it, and cut with an ellipsis when the smallest *)
(* font leaves it too long.  A character is known by its width.               *)
EXTENDS Naturals, Sequences, SequencesExt

CONSTANTS Widths,             \* width of a character, per unit of font size; 0 stands for the blank
          MaxWidth,           \* maxTitleWidth
          Largest, Smallest,  \* the font sizes fitTitle tries, in steps of Step
          Step,
          MaxLength           \* bound: characters of a name

VARIABLE name  \* the name of the node or of the subscription

vars == <<name>>

Blank    == 0
Ellipsis == 1
Width(w) == IF w = Blank THEN 1 ELSE w

\* measureText: a string is as wide as its characters.
Measured(s, size) == size * FoldLeft(LAMBDA sum, w : sum + Width(w), 0, s)

TrimEnd(s) ==
  LET last == {i \in DOMAIN s : \A j \in DOMAIN s : j >= i => s[j] = Blank}
  IN  SubSeq(s, 1, Len(s) - Cardinality(last))
Trim(s) == Reverse(TrimEnd(Reverse(TrimEnd(s))))

\* A defect: the character that did not fit is lost.
Wrapped_Drops(size, acc, w) ==
  LET candidate == Append(acc.line, w)
  IN  IF acc.line = <<>> \/ Measured(candidate, size) <= MaxWidth
        THEN [acc EXCEPT !.line = candidate]
        ELSE [lines |-> Append(acc.lines, TrimEnd(acc.line)), line |-> <<>>]

\* One character more: it still fits on the line, or the line is done.
Wrapped(size, acc, w) ==
  LET candidate == Append(acc.line, w)
  IN  IF acc.line = <<>> \/ Measured(candidate, size) <= MaxWidth
        THEN [acc EXCEPT !.line = candidate]
        ELSE [lines |-> Append(acc.lines, TrimEnd(acc.line)),
              line  |-> IF w = Blank THEN <<>> ELSE <<w>>]

WrapTitle(s, size) ==
  LET acc == FoldLeft(LAMBDA a, w : Wrapped(size, a, w), [lines |-> <<>>, line |-> <<>>], s)
  IN  IF acc.line = <<>> THEN acc.lines ELSE Append(acc.lines, TrimEnd(acc.line))

Sizes == {size \in Smallest..Largest : (Largest - size) % Step = 0}

\* The longest beginning of a line that leaves room for the ellipsis.
Cut(line, size) ==
  LET rooms == {n \in 0..Len(line) : n = 0 \/ Measured(Append(SubSeq(line, 1, n), Ellipsis), size) <= MaxWidth}
  IN  Append(SubSeq(line, 1, CHOOSE n \in rooms : \A m \in rooms : m <= n), Ellipsis)

FitTitle(s) ==
  LET fits == {size \in Sizes : Len(WrapTitle(s, size)) <= 2}
      size == IF fits = {} THEN Smallest ELSE CHOOSE f \in fits : \A g \in fits : g <= f
      lines == WrapTitle(s, size)
  IN  [size |-> size, cut |-> Len(lines) > 2,
       lines |-> IF Len(lines) > 2 THEN <<lines[1], Cut(lines[2], size)>> ELSE lines]

\* createQrCard: what is left of the name, or "SBM".
Title == FitTitle(IF Trim(name) = <<>> THEN <<1, 1, 1>> ELSE Trim(name))

-----------------------------------------------------------------------------
Init == name = <<>>

\* The user names the node.
TypeName == Len(name) < MaxLength /\ \E w \in Widths \cup {Blank} : name' = Append(name, w)
Erase    == name # <<>> /\ name' = SubSeq(name, 1, Len(name) - 1)

Next == TypeName \/ Erase
Spec == Init /\ [][Next]_vars

-----------------------------------------------------------------------------
NonBlank(s) == SelectSeq(s, LAMBDA w : w # Blank)

\* Whatever the name, the card shows it in one or two lines that fit, none of them
\* empty, and nothing of it but blanks is lost, unless an ellipsis says so.
TitleFits ==
  LET lines == Title.lines
      text  == NonBlank(FoldLeft(LAMBDA a, l : a \o l, <<>>, lines))
  IN  /\ Len(lines) \in {1, 2}
      /\ \A i \in DOMAIN lines : lines[i] # <<>> /\ Measured(lines[i], Title.size) <= MaxWidth
      /\ NonBlank(name) # <<>> =>
           IF Title.cut THEN IsStrictPrefix(Front(text), NonBlank(name)) ELSE text = NonBlank(name)

=============================================================================
