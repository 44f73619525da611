-------------------------- MODULE MCAccountService --------------------------
(***************************************************************************)
(* AccountService for TLC: operations create an account, change its        *)
(* password, or delete it; others change the accounts in any way.          *)
(***************************************************************************)
EXTENDS AccountService, FiniteSets

Items == {t \in Table : Cardinality({u \in Users : t[u] # Absent}) = 1}
Names == {{u} : u \in Users}
=============================================================================
