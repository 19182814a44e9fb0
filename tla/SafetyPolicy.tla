----------------------------- MODULE SafetyPolicy -----------------------------
(***************************************************************************)
(* What the safety gate concludes from the facts it has read:              *)
(* safety/safetyGate.ts, safety/checks/*.ts, safety/bondingCurveVault.ts.  *)
(* All are pure functions.  The list of excluded addresses and the two     *)
(* safeguards on circulating share and visible holders, empty and off by   *)
(* default, are left out.                                                  *)
(*                                                                         *)
(* The state of a token is a record:                                       *)
(*   mint     `decodes`, the two authorities, `program`, `extensions` (a   *)
(*            record of `id`, `payload` and the `effect` it really has,    *)
(*            which the code cannot see), `supply`                         *)
(*   holders  the largest accounts, largest first: `account`, `amount`,    *)
(*            and whether a `person` owns it, which the code cannot see    *)
(*   curve    `exists`, `genuine` (owned by the program and decodable),    *)
(*            `complete`, `real` reserves, `total` supply, `mayhem`;       *)
(*            `vault` and `vaultAmount` (-1: no account of this mint and   *)
(*            curve), and the `inventory` a live curve really holds, which *)
(*            the code cannot see                                          *)
(*   buy, sell  the price impact of a route, -1 when there is none         *)
(***************************************************************************)
EXTENDS Integers, Sequences, SequencesExt

CONSTANTS
  MaxTop10,         \* safety.maxTop10HolderPct
  MigrationReserve, \* PUMPFUN_MIGRATION_RESERVE_RAW
  MaxLoss           \* limit of the implied loss of a round trip

ASSUME PolicyAssumption == MaxTop10 \in 0..100 /\ MigrationReserve \in Nat /\ MaxLoss \in Nat

\* The decoder rejects a mint with malformed or duplicate extensions.
MintReadable(token) == token.mint.decodes

------------------------------------------------------------------------------
\* Token-2022 extensions.

Cosmetic == {19, 21, 23}           \* TokenMetadata, TokenGroup, TokenGroupMember
Pointers == {18, 20, 22}           \* MetadataPointer, GroupPointer, GroupMemberPointer
Decoded == {1, 6, 12, 14}          \* fee, default state, delegate, hook
CloseAuthority == 3

\* evaluatePayload() and the class of the extension.  Whatever is not named
\* here is rejected: listed as REJECT, not decodable, or unknown.
ExtensionPasses(x, supply) ==
  \/ x.id \in Cosmetic
  \/ x.id \in Pointers /\ x.payload # "malformed"
  \/ x.id \in Decoded /\ x.payload = "inert"
  \/ x.id = CloseAuthority /\ x.payload # "malformed" /\ supply > 0

\* Both authorities are renounced and every extension is understood and safe.
MintPasses(mint) ==
  /\ ~mint.mintAuthority /\ ~mint.freezeAuthority
  /\ mint.program = "token-2022" => \A x \in mint.extensions : ExtensionPasses(x, mint.supply)

------------------------------------------------------------------------------
\* Holder concentration.

\* Checks V3 to V7; V1 and V2 hold of every address derived from a mint.
VaultVerified(curve, supply) ==
  /\ curve.genuine
  /\ curve.vaultAmount >= 0
  /\ IF curve.complete THEN curve.vaultAmount = 0 /\ curve.real = 0
     ELSE curve.vaultAmount = curve.real + MigrationReserve
  /\ supply <= curve.total
  /\ curve.mayhem = "no"

SumOf(accounts) == FoldLeft(LAMBDA sum, h : sum + h.amount, 0, accounts)
Largest(n, accounts) == SumOf(SubSeq(accounts, 1, IF Len(accounts) < n THEN Len(accounts) ELSE n))
TopTen(accounts) == Largest(10, accounts)

\* evaluateHolderConcentration(), in hundredths of a percent, rounded down.
LegacyPasses(holders, supply) == (TopTen(holders) * 10000) \div supply <= MaxTop10 * 100

\* What is left of the list once the vault is left out.
NonVault(holders, vault) == SelectSeq(holders, LAMBDA h : h.account # vault)

\* evaluateHolderPolicy(): only the verified vault of a live curve is left out,
\* of the accounts and of the supply; a curve that is not verified rejects.
HoldersPass(holders, curve, supply) ==
  /\ supply > 0
  /\ curve.exists => VaultVerified(curve, supply)
  /\ IF curve.exists /\ ~curve.complete
     THEN LET circulating == supply - curve.vaultAmount IN
          /\ circulating > 0
          /\ (TopTen(NonVault(holders, curve.vault)) * 1000000) \div circulating <= MaxTop10 * 10000
     ELSE LegacyPasses(holders, supply)

------------------------------------------------------------------------------

\* evaluateSellability().
Sellable(buy, sell) == buy >= 0 /\ sell >= 0 /\ buy + sell <= MaxLoss

\* runSafetyGate(): no reason was found against the token.
GatePasses(mint, holders, curve, buy, sell) ==
  /\ MintPasses(mint)
  /\ HoldersPass(holders, curve, mint.supply)
  /\ Sellable(buy, sell)

------------------------------------------------------------------------------
\* What the gate is for, said of the token itself.

\* Nobody can inflate, freeze, tax, take, block or hide the token.
Unencumbered(mint) ==
  /\ ~mint.mintAuthority /\ ~mint.freezeAuthority
  /\ \A x \in mint.extensions : x.effect = "none"

People(holders) == SelectSeq(holders, LAMBDA h : h.person)
Pools(holders) == SelectSeq(holders, LAMBDA h : ~h.person)

\* The largest share a few may hold, up to the hundredth of a percent that the
\* code rounds away.
Within(held, circulating) == held * 10000 < circulating * (MaxTop10 * 100 + 1)

\* On a live curve ten people do not hold more than their share of the tokens
\* outside it.  Off the curve the code counts the pool among the ten accounts
\* and its tokens as circulating, so that nine people beside the pool do not:
\* of a tenth it says nothing.
Dispersed(holders, curve, supply) ==
  IF curve.exists /\ ~curve.complete
  THEN Within(Largest(10, People(holders)), supply - curve.inventory)
  ELSE Within(Largest(9, People(holders)), supply - Largest(1, Pools(holders)))

Harmless(mint, holders, curve, buy, sell) ==
  /\ Unencumbered(mint)
  /\ Dispersed(holders, curve, mint.supply)
  /\ Sellable(buy, sell)

==============================================================================
