--------------------------- MODULE MCMockSession ---------------------------
(***************************************************************************)
(* Clients and values for MockDebugSession.                                *)
(***************************************************************************)
EXTENDS MockDebugSession

\* The parts share nothing but the session, so a client uses one or two.
AnyClient ==
  {{"launch"}, {"launch", "hasty"}, {"launch", "hasty", "stopOnEntry"},
   {"launch", "compileError"}, {"globals", "progress"},
   {"variables"}, {"variables", "setExpression"}}

\* Strings of one size and, longer, the replacement character: what a decoder
\* makes of bytes that no string encodes to.
Replacement == "replacement"
MCEncoded == [s \in Strings |-> "bytes of " \o s]
MCBytes == {MCEncoded[s] : s \in Strings} \cup {"noUtf8"}
MCDecoded == [b \in MCBytes |-> IF b = "noUtf8" THEN Replacement
                                ELSE CHOOSE s \in Strings : MCEncoded[s] = b]
MCSize == [b \in MCBytes |-> IF b = MCEncoded[Replacement] THEN 3 ELSE 1]
Field(name, value) == [name |-> name, value |-> value]
MCFields == <<Field("f", Replacement)>>
=============================================================================
