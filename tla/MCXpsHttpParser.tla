--------------------------- MODULE MCXpsHttpParser ---------------------------
(***************************************************************************)
(* Instances of XpsHttpParser for TLC.  22 characters hold a request in    *)
(* absolute form with a header, or one in origin form with two, each part  *)
(* of which may be a character longer than it needs.                       *)
(***************************************************************************)
EXTENDS XpsHttpParser, TLC

\* Every class of characters the parser tells apart.
MCSymbol == AllSymbols
=============================================================================
