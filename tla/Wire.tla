-------------------------------- MODULE Wire --------------------------------
(***************************************************************************)
(* Messages as they are on the wire, and the receive buffer that takes     *)
(* them apart again.  The module has no variables.                         *)
(*                                                                         *)
(* A text is a sequence of words, among them "\n", the terminator; words   *)
(* are separated by blanks, and the empty word stands for a field that is  *)
(* empty, of which nothing but two blanks in a row can be seen.            *)
(***************************************************************************)
EXTENDS Naturals, Sequences

Terminator == "\n"
Blank == ""

(* Mutant: a reply to a ping is expected to have two fields.               *)
MinTokensOneMore == [HANDSH |-> 4, HANDSHRESP |-> 4, PING |-> 2, PINGRESP |-> 3, OPEER |-> 3]

(* The tokens that parseMessage asks for, by keyword.                      *)
MinTokens == [HANDSH |-> 4, HANDSHRESP |-> 4, PING |-> 2, PINGRESP |-> 2, OPEER |-> 3]

Keywords == DOMAIN MinTokens

(* The visitor's text and the terminator of sendMessage.                   *)
OnWire(m) == <<m.type>> \o m.fields \o <<Terminator>>

TextOf(messages) == LET text[i \in 0..Len(messages)] ==
                          IF i = 0 THEN <<>> ELSE text[i - 1] \o OnWire(messages[i])
                    IN  text[Len(messages)]

(* Splitting at white space finds no empty token.                          *)
Tokens(line) ==
  LET tokens[i \in 0..Len(line)] ==
        IF i = 0 THEN <<>>
        ELSE IF line[i] = Blank THEN tokens[i - 1] ELSE Append(tokens[i - 1], line[i])
  IN  tokens[Len(line)]

NoMessage == [type |-> "none", fields |-> <<>>]

(* Further tokens are not looked at.                                       *)
ParseMessage(tokens) ==
  IF /\ tokens # <<>>
     /\ tokens[1] \in Keywords
     /\ Len(tokens) >= MinTokens[tokens[1]]
  THEN [type |-> tokens[1], fields |-> SubSeq(tokens, 2, MinTokens[tokens[1]])]
  ELSE NoMessage

HasLine(buffer) == \E i \in DOMAIN buffer : buffer[i] = Terminator

LineEnd(buffer) ==
  CHOOSE i \in DOMAIN buffer : /\ buffer[i] = Terminator
                               /\ \A j \in 1..(i - 1) : buffer[j] # Terminator

FirstLine(buffer) == SubSeq(buffer, 1, LineEnd(buffer) - 1)

AfterLine(buffer) == SubSeq(buffer, LineEnd(buffer) + 1, Len(buffer))
=============================================================================
