----------------------------- MODULE MCRegistryGate -----------------------------
EXTENDS RegistryGate

Is(name, status) == <<[name |-> name, status |-> status]>>

\* No registries at all, or one declaration in each.
MCPublished ==
  {[kinds |-> Absent, scopes |-> Absent, agents |-> Absent]} \cup
  {[kinds |-> Text(Is(k, "active")), scopes |-> Text(Is(s, "archived")),
    agents |-> Text(Is(a, "active"))] : k \in Kinds, s \in Scopes, a \in Agents}
===============================================================================
