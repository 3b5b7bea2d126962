------------------------------ MODULE AuthGate ------------------------------
(***************************************************************************)
(* auth_gate: how the API-key gate reads a request's headers and finds the *)
(* caller behind it.  No state: the table of keys is built once at start.  *)
(***************************************************************************)
EXTENDS Integers, Sequences

CONSTANTS ApiKeys,       \* auth.api_keys: a sequence of [key_id, key_value]
          HeaderNames,   \* auth.header_names, in lower case
          Nobody         \* no principal

ASSUME ApiKeysAssumption ==
    \A i \in 1..Len(ApiKeys) : ApiKeys[i].key_id # Nobody

(***************************************************************************)
(* A header is [name, bearer, token]: `bearer' tells whether the value is  *)
(* of the form "Bearer <token>".  Header names are matched case-blind.     *)
(***************************************************************************)
Carries_AnyScheme(header) == header.name \in HeaderNames        \* variant

Carries(header) ==
    /\ header.name \in HeaderNames
    /\ header.name = "authorization" => header.bearer

\* A value two entries share belongs to the later one.
KeysWithValue(token) == {i \in 1..Len(ApiKeys) : ApiKeys[i].key_value = token}

PrincipalOf(token) ==
    LET owners == {i \in KeysWithValue(token) :
                      \A j \in KeysWithValue(token) : j <= i}
    IN  IF owners = {} THEN Nobody ELSE ApiKeys[CHOOSE i \in owners : TRUE].key_id

\* The first header of the request, in the order it was sent, whose key is known.
MatchPrincipal(headers) ==
    LET known == {h \in 1..Len(headers) :
                     Carries(headers[h]) /\ PrincipalOf(headers[h].token) # Nobody}
        first == {h \in known : \A g \in known : h <= g}
    IN  IF first = {} THEN Nobody
        ELSE PrincipalOf(headers[CHOOSE h \in first : TRUE].token)
=============================================================================
