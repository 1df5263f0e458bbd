----------------------------- MODULE Blockchain -----------------------------
(***************************************************************************)
(* The chain as the block service (Blockfrost) shows it: what the index    *)
(* follows.  It is outside the repository; it is modelled from the requests *)
(* CachedUtxoIndex makes.                                                   *)
(*                                                                         *)
(* A block is <<height, fork>>.  A slot is the height of its block, and a   *)
(* block holds at most one transaction of interest.  A transaction has one *)
(* input and one output, and the output bears the transaction's name.      *)
(***************************************************************************)
EXTENDS Naturals, Sequences, FiniteSets

CONSTANTS
    Txs,        \* transactions at the Capo's address
    Genesis,    \* outputs of earlier transactions
    Input,      \* the output each transaction spends
    LastValid,  \* the last slot a transaction may be in
    Start,      \* height of the chain at the start
    MaxHeight,  \* bound: height of the chain
    MaxForks,   \* bound: forks
    ForkDepth   \* a fork replaces at most this many blocks

Utxos == Genesis \cup Txs
Heights == 1..MaxHeight
BlockIds == Heights \X (0..MaxForks)
NoBlock == <<0, 0>>
Height(b) == b[1]

ASSUME BlockchainAssumption ==
    /\ Genesis \cap Txs = {}
    /\ Input \in [Txs -> Utxos]
    /\ LastValid \in [Txs -> Nat]
    /\ MaxHeight \in Nat /\ Start \in Heights /\ MaxForks \in Nat /\ ForkDepth \in Nat

VARIABLES
    chain,  \* the block at each height
    mined,  \* the transactions of each block ever on the chain
    forks   \* forks so far

chainVars == <<chain, mined, forks>>

ChainTypeOK ==
    /\ chain \in Seq(BlockIds)
    /\ Len(chain) \in Heights
    /\ mined \in [BlockIds -> SUBSET Txs]
    /\ forks \in 0..MaxForks

ChainInit ==
    /\ chain = [h \in 1..Start |-> <<h, 0>>]
    /\ mined = [b \in BlockIds |-> {}]
    /\ forks = 0

-----------------------------------------------------------------------------
Canonical(b) == Height(b) \in 1..Len(chain) /\ chain[Height(b)] = b
At(h) == IF h <= Len(chain) THEN mined[chain[h]] ELSE {}
OnChain(T) == \E h \in 1..Len(chain) : T \in mined[chain[h]]
HeightOf(T) == CHOOSE h \in 1..Len(chain) : T \in mined[chain[h]]
Spent(u) == \E T \in Txs : Input[T] = u /\ OnChain(T)

\* The ledger's rules for a transaction in the next block.
Includable(T) ==
    /\ ~OnChain(T) /\ ~Spent(Input[T])
    /\ Input[T] \in Genesis \/ OnChain(Input[T])
    /\ Len(chain) < LastValid[T]

Mine(S) ==
    LET b == <<Len(chain) + 1, forks>> IN
    /\ Len(chain) < MaxHeight
    /\ \A T, R \in S : T = R
    /\ \A T \in S : Includable(T)
    /\ chain' = Append(chain, b)
    /\ mined' = [mined EXCEPT ![b] = S]
    /\ UNCHANGED forks

\* The service's node leaves k blocks; others follow with Mine.  A second fork
\* comes only after a block of the first.
Fork(k) ==
    /\ k \in 1..ForkDepth /\ k < Len(chain)
    /\ forks < MaxForks
    /\ chain[Len(chain)][2] = forks
    /\ chain' = SubSeq(chain, 1, Len(chain) - k)
    /\ forks' = forks + 1
    /\ UNCHANGED mined

=============================================================================
