--------------------------- MODULE GuildTokensProofs ---------------------------
(***************************************************************************)
(* What GuildTokens promises, for any number of guilds and pastes.         *)
(***************************************************************************)
EXTENDS GuildTokens, SequenceTheorems, TLAPS

\* What a paste was preceded by stays linked.
AfterInv == \A n \in DOMAIN pastes : pastes[n].after \subseteq Linked(pastes[n].guild)

TokenInv == TokenTypeOK /\ RowIsVerified /\ NoOlderTokenReturns /\ AfterInv

-----------------------------------------------------------------------------

\* A paste is a number from 1 up.
LEMMA PasteNumbers ==
  ASSUME TokenTypeOK
  PROVE  /\ DOMAIN pastes = 1..Len(pastes)
         /\ DOMAIN pastes \subseteq 1..MaxPastes
         /\ \A n \in DOMAIN pastes : pastes[n] \in Paste
  BY MaxPastesAssumption DEF TokenTypeOK

\* linkToken leaves the token and the name of one paste.
LEMMA UpsertedRow ==
  ASSUME NEW row, NEW n
  PROVE  Upserted(row, n) = [token |-> n, name |-> n]
  BY DEF Upserted

\* A new paste changes nothing of the earlier ones.
LEMMA SubmitPreserves ==
  ASSUME TokenInv, NEW g \in Guilds, SubmitToken(g)
  PROVE  TokenInv' /\ \A h \in Guilds : Linked(h)' = Linked(h)
<1> DEFINE p == [guild |-> g, state |-> "asked", after |-> Linked(g)]
<1>1. TokenTypeOK /\ RowIsVerified /\ NoOlderTokenReturns /\ AfterInv
  BY DEF TokenInv
<1>2. p \in Paste
  BY <1>1, PasteNumbers DEF Paste, Linked
<1>3. pastes \in Seq(Paste) /\ pastes' = Append(pastes, p) /\ tokens' = tokens
  BY <1>1 DEF TokenTypeOK, SubmitToken
<1> HIDE DEF p
<1>4. /\ pastes' \in Seq(Paste) /\ Len(pastes') = Len(pastes) + 1
      /\ DOMAIN pastes' = DOMAIN pastes \cup {Len(pastes) + 1}
      /\ \A n \in DOMAIN pastes : pastes'[n] = pastes[n]
      /\ pastes'[Len(pastes) + 1] = p
  BY <1>2, <1>3, AppendProperties
<1>5. p.state = "asked" /\ p.guild = g /\ p.after = Linked(g)
  BY DEF p
<1>6. \A h : Linked(h)' = Linked(h)
  BY <1>1, <1>4, <1>5, PasteNumbers DEF Linked
<1>7. TokenTypeOK'
  <2>1. Len(pastes) \in Nat /\ Len(pastes) < MaxPastes
    BY <1>1 DEF TokenTypeOK, SubmitToken
  <2>2. Len(pastes) + 1 <= MaxPastes
    BY <2>1, MaxPastesAssumption
  <2> QED
    BY <1>1, <1>3, <1>4, <2>2 DEF TokenTypeOK
<1>8. RowIsVerified'
  BY <1>1, <1>3, <1>6 DEF RowIsVerified
<1>9. NoOlderTokenReturns'
  <2>1. \A h \in Guilds : Linked(h) \subseteq DOMAIN pastes
    BY DEF Linked
  <2> QED
    BY <1>1, <1>3, <1>4, <1>6, <2>1 DEF NoOlderTokenReturns
<1>10. AfterInv'
  BY <1>1, <1>4, <1>5, <1>6 DEF AfterInv
<1> QED
  BY <1>6, <1>7, <1>8, <1>9, <1>10 DEF TokenInv

\* A paste that goes on, to any state but "linked", changes no link.
LEMMA OtherPreserves ==
  ASSUME TokenInv, tokens' = tokens, pastes' \in Seq(Paste),
         DOMAIN pastes' = DOMAIN pastes, Len(pastes') = Len(pastes),
         \A n \in DOMAIN pastes :
           /\ pastes'[n].guild = pastes[n].guild
           /\ pastes'[n].after = pastes[n].after
           /\ pastes'[n].state = "linked" <=> pastes[n].state = "linked"
  PROVE  TokenInv' /\ \A h \in Guilds : Linked(h)' = Linked(h)
<1>1. TokenTypeOK /\ RowIsVerified /\ NoOlderTokenReturns /\ AfterInv
  BY DEF TokenInv
<1>2. \A h : Linked(h)' = Linked(h)
  BY DEF Linked
<1>3. \A h \in Guilds : Linked(h) \subseteq DOMAIN pastes
  BY DEF Linked
<1>4. TokenTypeOK'
  BY <1>1 DEF TokenTypeOK
<1>5. RowIsVerified'
  BY <1>1, <1>2 DEF RowIsVerified
<1>6. NoOlderTokenReturns'
  BY <1>1, <1>2, <1>3 DEF NoOlderTokenReturns
<1>7. AfterInv'
  BY <1>1, <1>2 DEF AfterInv
<1> QED
  BY <1>2, <1>4, <1>5, <1>6, <1>7 DEF TokenInv

\* Replacing the state of paste n by s.
LEMMA StateChanged ==
  ASSUME TokenTypeOK, NEW n \in DOMAIN pastes,
         NEW s \in {"asked", "accepted", "linked", "over"},
         pastes' = [pastes EXCEPT ![n].state = s]
  PROVE  /\ pastes' \in Seq(Paste) /\ Len(pastes') = Len(pastes)
         /\ DOMAIN pastes' = DOMAIN pastes
         /\ pastes'[n].state = s
         /\ \A m \in DOMAIN pastes :
              /\ pastes'[m].guild = pastes[m].guild
              /\ pastes'[m].after = pastes[m].after
              /\ m # n => pastes'[m] = pastes[m]
<1> DEFINE p == [pastes[n] EXCEPT !.state = s]
<1>1. pastes \in Seq(Paste) /\ pastes[n] \in Paste
  BY PasteNumbers DEF TokenTypeOK
<1>2. p \in Paste /\ p.guild = pastes[n].guild /\ p.after = pastes[n].after /\ p.state = s
  BY <1>1 DEF Paste
<1>3. pastes' = [pastes EXCEPT ![n] = p]
  OBVIOUS
<1> HIDE DEF p
<1>4. /\ pastes' \in Seq(Paste) /\ Len(pastes') = Len(pastes)
      /\ DOMAIN pastes' = DOMAIN pastes
      /\ \A m \in DOMAIN pastes : pastes'[m] = IF m = n THEN p ELSE pastes[m]
  BY <1>1, <1>2, <1>3, ExceptSeq
<1> QED
  BY <1>2, <1>4

\* The link itself: nobody was pasted after a paste not linked before.
LEMMA LinkPreserves ==
  ASSUME TokenInv, NEW n \in DOMAIN pastes, pastes[n].state = "accepted",
         pastes' = [pastes EXCEPT ![n].state = "linked"],
         tokens' = [tokens EXCEPT ![pastes[n].guild] = Upserted(@, n)]
  PROVE  TokenInv' /\ \A h \in Guilds : Linked(h) \subseteq Linked(h)'
<1> DEFINE g == pastes[n].guild
<1>1. TokenTypeOK /\ RowIsVerified /\ NoOlderTokenReturns /\ AfterInv
  BY DEF TokenInv
<1>2. g \in Guilds /\ n \in 1..MaxPastes
  BY <1>1, PasteNumbers DEF Paste
<1>3. /\ pastes' \in Seq(Paste) /\ Len(pastes') = Len(pastes)
      /\ DOMAIN pastes' = DOMAIN pastes
      /\ pastes'[n].state = "linked"
      /\ \A m \in DOMAIN pastes :
           /\ pastes'[m].guild = pastes[m].guild
           /\ pastes'[m].after = pastes[m].after
           /\ m # n => pastes'[m] = pastes[m]
  BY <1>1, StateChanged
<1>4. tokens' = [tokens EXCEPT ![g] = [token |-> n, name |-> n]]
  BY UpsertedRow
<1> HIDE DEF g
<1>5. \A h : Linked(h)' = IF h = g THEN Linked(h) \cup {n} ELSE Linked(h)
  BY <1>3 DEF Linked, g
<1>6. /\ tokens'[g] = [token |-> n, name |-> n]
      /\ \A h \in Guilds \ {g} : tokens'[h] = tokens[h]
  BY <1>1, <1>2, <1>4 DEF TokenTypeOK
<1>7. TokenTypeOK'
  <2>1. [token |-> n, name |-> n] \in TokenRow
    BY <1>2, MaxPastesAssumption DEF TokenRow
  <2>2. tokens' \in [Guilds -> TokenRow]
    BY <1>1, <1>4, <2>1 DEF TokenTypeOK
  <2>3. Len(pastes') <= MaxPastes
    BY <1>1, <1>3 DEF TokenTypeOK
  <2> QED
    BY <1>3, <2>2, <2>3 DEF TokenTypeOK
<1>8. RowIsVerified'
  BY <1>1, <1>5, <1>6 DEF RowIsVerified
<1>9. \A m \in DOMAIN pastes : n \notin pastes[m].after
  BY <1>1 DEF AfterInv, Linked
<1>10. NoOlderTokenReturns'
  <2> SUFFICES ASSUME NEW h \in Guilds, NEW m \in Linked(h)'
               PROVE  tokens'[h].token \notin pastes'[m].after
    BY DEF NoOlderTokenReturns
  <2>1. m \in DOMAIN pastes /\ pastes'[m].after = pastes[m].after
    BY <1>3 DEF Linked
  <2>2. CASE h = g
    BY <1>6, <1>9, <2>1, <2>2
  <2>3. CASE h # g
    BY <1>1, <1>5, <1>6, <2>1, <2>3 DEF NoOlderTokenReturns
  <2> QED
    BY <2>2, <2>3
<1>11. AfterInv'
  BY <1>1, <1>3, <1>5 DEF AfterInv
<1> QED
  BY <1>5, <1>7, <1>8, <1>10, <1>11 DEF TokenInv

\* A paste waiting for whoami that ends otherwise.
LEMMA OverPreserves ==
  ASSUME TokenInv, NEW n \in DOMAIN pastes, NEW s \in {"accepted", "over"},
         pastes[n].state # "linked",
         pastes' = [pastes EXCEPT ![n].state = s], tokens' = tokens
  PROVE  TokenInv' /\ \A h \in Guilds : Linked(h)' = Linked(h)
<1>1. TokenTypeOK
  BY DEF TokenInv
<1>2. /\ pastes' \in Seq(Paste) /\ Len(pastes') = Len(pastes)
      /\ DOMAIN pastes' = DOMAIN pastes
      /\ pastes'[n].state = s
      /\ \A m \in DOMAIN pastes :
           /\ pastes'[m].guild = pastes[m].guild
           /\ pastes'[m].after = pastes[m].after
           /\ m # n => pastes'[m] = pastes[m]
  BY <1>1, StateChanged
<1> QED
  BY <1>2, OtherPreserves

\* An eviction ends pastes, not links.
LEMMA LostPreserves ==
  ASSUME TokenInv, PastesLost
  PROVE  TokenInv' /\ \A h \in Guilds : Linked(h)' = Linked(h)
<1> DEFINE p(n) == IF pastes[n].state = "linked" THEN pastes[n]
                   ELSE [pastes[n] EXCEPT !.state = "over"]
<1>1. TokenTypeOK
  BY DEF TokenInv
<1>2. \A n \in DOMAIN pastes :
        /\ p(n) \in Paste
        /\ p(n).guild = pastes[n].guild /\ p(n).after = pastes[n].after
        /\ p(n).state = "linked" <=> pastes[n].state = "linked"
  BY <1>1, PasteNumbers DEF Paste
<1>3. pastes' = [n \in DOMAIN pastes |-> p(n)] /\ tokens' = tokens
  BY DEF PastesLost
<1> HIDE DEF p
<1>4. DOMAIN pastes = 1..Len(pastes) /\ Len(pastes) \in Nat
  BY <1>1, PasteNumbers DEF TokenTypeOK
<1>5. pastes' \in Seq(Paste) /\ Len(pastes') = Len(pastes) /\ DOMAIN pastes' = DOMAIN pastes
  BY <1>2, <1>3, <1>4
<1> QED
  BY <1>2, <1>3, <1>5, OtherPreserves

\* Every step of the tokens keeps the invariant and undoes no link.
LEMMA TokenStep ==
  ASSUME TokenInv, TokenNext
  PROVE  TokenInv' /\ \A h \in Guilds : Linked(h) \subseteq Linked(h)'
<1>1. ASSUME NEW g \in Guilds, SubmitToken(g)
      PROVE  TokenInv' /\ \A h \in Guilds : Linked(h) \subseteq Linked(h)'
  BY <1>1, SubmitPreserves
<1>2. ASSUME NEW n \in DOMAIN pastes, NiamosAccepts(n)
      PROVE  TokenInv' /\ \A h \in Guilds : Linked(h) \subseteq Linked(h)'
  BY <1>2, OverPreserves DEF NiamosAccepts
<1>3. ASSUME NEW n \in DOMAIN pastes, WhoamiAnswered(n)
      PROVE  TokenInv' /\ \A h \in Guilds : Linked(h) \subseteq Linked(h)'
  BY <1>3, OverPreserves, LinkPreserves DEF WhoamiAnswered
<1>4. CASE PastesLost
  BY <1>4, LostPreserves
<1> QED
  BY <1>1, <1>2, <1>3, <1>4 DEF TokenNext

LEMMA TokenStutter ==
  ASSUME TokenInv, UNCHANGED tokenVars
  PROVE  TokenInv' /\ \A h \in Guilds : Linked(h)' = Linked(h)
  BY DEF TokenInv, TokenTypeOK, RowIsVerified, NoOlderTokenReturns, AfterInv, Linked, tokenVars

LEMMA TokenInitial ==
  ASSUME TokenInit
  PROVE  TokenInv
<1>1. pastes = <<>> /\ \A g \in Guilds : tokens[g] = NoRow
  BY DEF TokenInit
<1>2. TokenTypeOK
  BY MaxPastesAssumption DEF TokenInit, TokenTypeOK, NoRow, TokenRow
<1> QED
  BY <1>1, <1>2 DEF TokenInv, RowIsVerified, NoOlderTokenReturns, AfterInv, Linked

\* Types, verified rows, no older token, and what makes them inductive.
THEOREM TokensInvariant == TokenSpec => []TokenInv
<1>1. TokenInit => TokenInv
  BY TokenInitial
<1>2. TokenInv /\ [TokenNext]_tokenVars => TokenInv'
  BY TokenStep, TokenStutter
<1> QED
  BY <1>1, <1>2, PTL DEF TokenSpec
=============================================================================
