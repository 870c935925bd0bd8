---------------------------- MODULE MCStructures ----------------------------
(***************************************************************************)
(* What keeps a structure of its own while a page is read: the layers of a *)
(* list (Lists), the registries of the parser (Registries), the include    *)
(* blocks of a page (Includes) and the stack of the inline scopes          *)
(* (InlineScopes).  They share no state, so a behaviour is about one of    *)
(* them, and the others have nothing to do.                                *)
(***************************************************************************)
EXTENDS Lists, Registries, MCIncludes, MCInlineScopes

VARIABLE part \* what the behaviour is about

mcVars == <<listVars, vars, includesVars, scopesVars, part>>

NoRows   == caller = "other" /\ written = << >> /\ ListsInit
NoText   == text = << >> /\ pageSyntax = TRUE /\ Unscanned
NoStream == stream = << >> /\ Unread

MCInit ==
    /\ \/ part = "lists" /\ ListsInit /\ NoText /\ NoStream
       \/ part = "registries" /\ NoRows /\ NoText /\ NoStream
       \/ part = "includes" /\ NoRows /\ IncludesInit /\ NoStream
       \/ part = "scopes" /\ NoRows /\ NoText /\ ScopesInit
    /\ Init

ListsStep      == part = "lists" /\ ListsNext
RegistriesStep == part = "registries" /\ Next
IncludesStep   == part = "includes" /\ IncludesNext
ScopesStep     == part = "scopes" /\ ScopesNext

MCNext ==
    /\ UNCHANGED part
    /\ \/ ListsStep /\ UNCHANGED <<vars, includesVars, scopesVars>>
       \/ RegistriesStep /\ UNCHANGED <<listVars, includesVars, scopesVars>>
       \/ IncludesStep /\ UNCHANGED <<listVars, vars, scopesVars>>
       \/ ScopesStep /\ UNCHANGED <<listVars, vars, includesVars>>

MCSpec == MCInit /\ [][MCNext]_mcVars /\ WF_includesVars(IncludesStep)

\* include() returns.
Terminates == part = "includes" => <>(status \in {"done", "failed", "invalid"})

=============================================================================
