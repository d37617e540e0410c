----------------------------- MODULE MCFrontend -----------------------------
(***************************************************************************)
(* A small instance of Terminal and GameLoop.  The clock wraps four units  *)
(* after the program starts; a tick takes four, and a slow one six.        *)
(***************************************************************************)
EXTENDS Terminal

\* The first cell changes and the second does not.
TwoPictures == {<<"a", "b">>, <<"b", "b">>}
=============================================================================
