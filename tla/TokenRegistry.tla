---------------------------- MODULE TokenRegistry ----------------------------
(***************************************************************************)
(* packages/contracts contracts/TokenRegistry.sol: the whitelist of tokens *)
(* and of trading pairs.  Every operation is the owner's; one that reverts *)
(* changes nothing.  A pair id is a hash of the two addresses in order, so *)
(* the pair of tokens is the id.  symbol and decimals are left out.        *)
(***************************************************************************)
EXTENDS Naturals, Sequences

CONSTANTS Tokens,       \* token addresses
          MaxListings   \* bound: calls of addToken, and of createPair

VARIABLES tokenActive,  \* tokens[token].active
          pairActive,   \* pairs[pairId].active
          tokenList,    \* tokenList
          pairList      \* pairList

registryVars == <<tokenActive, pairActive, tokenList, pairList>>
TokenPair == Tokens \X Tokens

RegistryInit ==
  /\ tokenActive = [t \in Tokens |-> FALSE] /\ tokenList = <<>>
  /\ pairActive = [p \in TokenPair |-> FALSE] /\ pairList = <<>>

AddToken(t) ==
  /\ ~tokenActive[t]
  /\ Len(tokenList) < MaxListings
  /\ tokenActive' = [tokenActive EXCEPT ![t] = TRUE]
  /\ tokenList' = Append(tokenList, t)
  /\ UNCHANGED <<pairActive, pairList>>

\* The pairs of the token are left as they are.
RemoveToken(t) ==
  /\ tokenActive[t]
  /\ tokenActive' = [tokenActive EXCEPT ![t] = FALSE]
  /\ UNCHANGED <<pairActive, tokenList, pairList>>

CreatePair(base, quote) ==
  /\ tokenActive[base] /\ tokenActive[quote]
  /\ ~pairActive[<<base, quote>>]
  /\ Len(pairList) < MaxListings
  /\ pairActive' = [pairActive EXCEPT ![<<base, quote>>] = TRUE]
  /\ pairList' = Append(pairList, <<base, quote>>)
  /\ UNCHANGED <<tokenActive, tokenList>>

DeactivatePair(p) ==
  /\ pairActive[p]
  /\ pairActive' = [pairActive EXCEPT ![p] = FALSE]
  /\ UNCHANGED <<tokenActive, tokenList, pairList>>

IsPairActive(p) == pairActive[p]

RegistryNext ==
  \/ \E t \in Tokens : AddToken(t) \/ RemoveToken(t)
  \/ \E b, q \in Tokens : CreatePair(b, q)
  \/ \E p \in TokenPair : DeactivatePair(p)

RegistrySpec == RegistryInit /\ [][RegistryNext]_registryVars
=============================================================================
