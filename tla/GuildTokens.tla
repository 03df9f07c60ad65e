------------------------------ MODULE GuildTokens ------------------------------
(***************************************************************************)
(* The Niamos token of each guild (services/niamosTokens.ts, the modal of  *)
(* /connect-niamos, whoami of niamos/client.ts).                           *)
(*                                                                         *)
(* A token is known by the number of the paste that brought it, and so is  *)
(* the account whoami says it belongs to.  Nothing orders the pastes of    *)
(* one guild: each waits for its own whoami.                               *)
(***************************************************************************)
EXTENDS Integers, Sequences

CONSTANTS
  Guilds,
  MaxPastes     \* bound on the tokens ever pasted

ASSUME MaxPastesAssumption == MaxPastes \in Nat

VARIABLES
  pastes,  \* every token pasted, and how far its link has come
  tokens   \* guild_niamos_tokens

tokenVars == <<pastes, tokens>>

\* after holds, for checking, the pastes of the guild that were linked when
\* this one was made.
Paste == [guild : Guilds,
          state : {"asked", "accepted", "linked", "over"},
          after : SUBSET (1..MaxPastes)]

\* The columns that matter: whose token the row holds, and whose name.
NoRow == [token |-> 0, name |-> 0]
TokenRow == [token : 0..MaxPastes, name : 0..MaxPastes]

TokenInit ==
  /\ pastes = <<>>
  /\ tokens = [g \in Guilds |-> NoRow]

Linked(g) == {n \in DOMAIN pastes : pastes[n].guild = g /\ pastes[n].state = "linked"}

\* linkToken's upsert.
Upserted_KeepsName(row, n) ==
  IF row = NoRow THEN [token |-> n, name |-> n] ELSE [row EXCEPT !.token = n]
Upserted_KeepsRow(row, n) ==
  IF row = NoRow THEN [token |-> n, name |-> n] ELSE row
Upserted(row, n) == [token |-> n, name |-> n]

\* findGuildToken, of a round that has an origin guild; 0 is null.
GuildToken_AnyGuild(g) ==
  IF tokens[g] # NoRow THEN tokens[g].token
  ELSE IF \E other \in Guilds : tokens[other] # NoRow
       THEN tokens[CHOOSE other \in Guilds : tokens[other] # NoRow].token ELSE 0
GuildToken(g) == tokens[g].token

-----------------------------------------------------------------------------

\* An admin submits the modal: whoami is asked about the token.
SubmitToken(g) ==
  /\ Len(pastes) < MaxPastes
  /\ pastes' = Append(pastes, [guild |-> g, state |-> "asked", after |-> Linked(g)])
  /\ UNCHANGED tokens

\* Niamos finds the token valid.
NiamosAccepts(n) ==
  /\ pastes[n].state = "asked"
  /\ pastes' = [pastes EXCEPT ![n].state = "accepted"]
  /\ UNCHANGED tokens

\* whoami answers, and the row is written in the same turn; or Niamos
\* rejects the token, or the request fails, whatever Niamos made of it.
WhoamiAnswered(n) ==
  \/ /\ pastes[n].state = "accepted"
     /\ pastes' = [pastes EXCEPT ![n].state = "linked"]
     /\ tokens' = [tokens EXCEPT ![pastes[n].guild] = Upserted(@, n)]
  \/ /\ pastes[n].state \in {"asked", "accepted"}
     /\ pastes' = [pastes EXCEPT ![n].state = "over"]
     /\ UNCHANGED tokens

\* An eviction ends every link that waits for whoami.
PastesLost ==
  /\ pastes' = [n \in DOMAIN pastes |->
                  IF pastes[n].state = "linked" THEN pastes[n]
                  ELSE [pastes[n] EXCEPT !.state = "over"]]
  /\ UNCHANGED tokens

TokenNext ==
  \/ \E g \in Guilds : SubmitToken(g)
  \/ \E n \in DOMAIN pastes : NiamosAccepts(n) \/ WhoamiAnswered(n)
  \/ PastesLost

TokenSpec == TokenInit /\ [][TokenNext]_tokenVars

-----------------------------------------------------------------------------
(* Properties.                                                             *)

TokenTypeOK ==
  /\ pastes \in Seq(Paste) /\ Len(pastes) <= MaxPastes
  /\ tokens \in [Guilds -> TokenRow]

\* A guild's row holds one token that Niamos accepted for that very guild,
\* with the name that goes with it, however links of several guilds and
\* admins overlap and fail (services/niamosTokens.ts:34-44).
RowIsVerified ==
  \A g \in Guilds :
    tokens[g] # NoRow =>
      /\ tokens[g].token \in Linked(g)
      /\ tokens[g].name = tokens[g].token

\* "linking again replaces the previous one" (commands/connectNiamos.ts:34):
\* a token whose link was done before a newer one was even pasted does not
\* stay, or come back, once that newer one is linked.
NoOlderTokenReturns ==
  \A g \in Guilds : \A n \in Linked(g) :
    tokens[g].token \notin pastes[n].after
=============================================================================
