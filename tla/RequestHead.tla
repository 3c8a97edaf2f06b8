---------------------------- MODULE RequestHead ----------------------------
(***************************************************************************)
(* What handleConn finds in the head of a request: parseRequestLine,       *)
(* findContentLength and isContentLengthPrefix of internal/server.         *)
(*                                                                         *)
(* A head is the bytes up to and with its empty line.  Blanks, digits and  *)
(* ends of lines are symbols one by one; the fifteen bytes of a            *)
(* content-length with its colon are one symbol, which has several         *)
(* spellings, and so is any other word.                                    *)
(***************************************************************************)
EXTENDS JsonNumber

LengthNames == {"content-length:", "Content-Length:", "CONTENT-LENGTH:"}

Blank == " "

(***************************************************************************)
(* The first place from i at which there is no blank, or at which there is *)
(* one; behind the end if there is none.                                   *)
(***************************************************************************)
BlanksEnd(b, i) ==
  CHOOSE j \in i .. (Len(b) + 1) :
    (\A k \in i .. (j - 1) : b[k] = Blank) /\ (j = Len(b) + 1 \/ b[j] # Blank)

WordEnd(b, i) ==
  IF i > Len(b) THEN i
  ELSE CHOOSE j \in i .. (Len(b) + 1) :
         (\A k \in i .. (j - 1) : b[k] # Blank) /\ (j = Len(b) + 1 \/ b[j] = Blank)

(***************************************************************************)
(* The length stands behind the first content-length of the head, wherever *)
(* it is.  The byte behind the colon is passed over, whatever it is.  An   *)
(* int wraps.                                                              *)
(***************************************************************************)
Mentions(b) == {i \in DOMAIN b : b[i] \in LengthNames /\ i + 2 <= Len(b)}

\* Wrong: takes the blank behind the colon to be the only one.
LengthAtOneBlank(b, i) == IntValue(b, i + 2, DigitsEnd(b, i + 2))

LengthAt(b, i) ==
  LET j == BlanksEnd(b, i + 2)
  IN  IntValue(b, j, DigitsEnd(b, j))

findContentLength(b) ==
  IF Mentions(b) = {} THEN 0
  ELSE LengthAt(b, CHOOSE i \in Mentions(b) : \A k \in Mentions(b) : i <= k)

(***************************************************************************)
(* The path is the second word.  In a head without a blank it begins two   *)
(* places behind the last byte, which a slice only may when the buffer     *)
(* goes on there.                                                          *)
(***************************************************************************)
PathStart(b) == WordEnd(b, 1) + 1

parseRequestLine(b) ==
  [path   |-> SubSeq(b, PathStart(b), WordEnd(b, PathStart(b)) - 1),
   length |-> findContentLength(b)]

PathOutOfBuffer(b, full) == full /\ PathStart(b) = Len(b) + 2
=============================================================================
