------------------------------ MODULE Frontend ------------------------------
(***************************************************************************)
(* The lexer and the parser as u6ac calls them, one after the other.       *)
(***************************************************************************)
EXTENDS Lexer, Parser

front_vars == <<lex_vars, vars>>

FrontInit == LexInit /\ Init

Lex   == LexNext /\ UNCHANGED vars
Parse == /\ lex_status = "ok"
         /\ Start(lexed) \/ ParseStep
         /\ UNCHANGED lex_vars

FrontNext == Lex \/ Parse

FrontSpec == FrontInit /\ [][FrontNext]_front_vars

-----------------------------------------------------------------------------

(* fgetc does not tell a read error from the end of the source, but a      *)
(* program is never the beginning of another: a proper source of which     *)
(* only a part could be read is refused, unless the part has every token.  *)
ReadErrorsShow ==
  status = "ok" /\ Reference(source).ok /\ IsProgram(Reference(source).toks)
    => SameToks(tokens, Reference(source).toks)

=============================================================================
