--------------------------- MODULE MCALBProcessor ---------------------------
(* Two requests over two URLs, with an empty entry in one list and no list *)
(* at all for the cloud route. There is room for one pool more than there  *)
(* are URLs, so that the model does not enforce one pool per URL.          *)
EXTENDS ALBProcessor

CONSTANTS u1, u2

BothURLs == <<u1, NoUrl, u2>>
OneURL == <<u2>>
NoURLs == <<>>
=============================================================================
