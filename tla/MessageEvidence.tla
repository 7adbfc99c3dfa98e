--------------------------- MODULE MessageEvidence ---------------------------
(***************************************************************************)
(* What a quote proves: engine/_evidence_grounding.py, the checks that the *)
(* interpreters of mail share.                                             *)
(*                                                                         *)
(* A text is abstracted to how often each quote occurs in it, and a quote  *)
(* to the values (amounts, dates, references) its words spell out.  A      *)
(* figure is a value a model asserts with the quote it gives for it.       *)
(***************************************************************************)
EXTENDS Naturals

CONSTANTS
  Quotes,   \* the passages a model may quote
  Values,   \* amounts, dates and references
  None,     \* null
  Says      \* Says[q]: the values explicit in the words of q

Texts == [Quotes -> 0..2]

Figures == [value : Values \cup {None}, quote : Quotes \cup {None}]

NoFigure == [value |-> None, quote |-> None]

\* Faulty variants (a name ending in Mutant) are not part of the model: each is
\* a bug the next definition could have, which a property must tell apart.
LocatedMutant(text, quote) == quote \in Quotes /\ text[quote] > 0

\* A quote counts where it is verbatim, and in one place only.
Located(text, quote) == quote \in Quotes /\ text[quote] = 1

Explicit(value, quote) == value \in Says[quote]

Proves(text, figure) ==
  Located(text, figure.quote) /\ Explicit(figure.value, figure.quote)

\* What properties say of a figure: its quote is given, is in one place of the
\* text and nowhere else, and spells the value out.
IsSpelledOutIn(text, figure) ==
  \E quote \in Quotes :
    figure.quote = quote /\ text[quote] = 1 /\ figure.value \in Says[quote]
=============================================================================
