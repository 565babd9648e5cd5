--------------------------- MODULE ClientInterface ---------------------------
(***************************************************************************)
(* The command line, the generated client and the program put together:    *)
(* for every transaction of every function, whether the client can build   *)
(* it and whether the program accepts its accounts.                        *)
(***************************************************************************)
EXTENDS CliCalls, ProgramInterface, Functions

\* Message::compile: an account has the privileges it is given anywhere in the
\* transaction, and the fee payer, the keypair, signs and is writable.
Privileged(m, metas) ==
    [address  |-> m.address,
     writable |-> m.address = Keypair \/ \E n \in metas : n.address = m.address /\ n.writable,
     signer   |-> m.address = Keypair \/ \E n \in metas : n.address = m.address /\ n.signer]

TxAccepted(tx) ==
    LET built == Instruction(Client[tx.ix.instruction], tx.ix.fields)
    IN Accepts(built.discriminator, built.args,
               [i \in DOMAIN built.accounts |->
                   Privileged(built.accounts[i], Range(built.accounts))],
               Keypair)

Panics(tx) == NotSet(Client[tx.ix.instruction], tx.ix.fields) /= {}

Summary(tx) ==
    [unless |-> tx.unless, instruction |-> tx.ix.instruction, times |-> tx.times,
     accepted |-> TxAccepted(tx), panics |-> Panics(tx)]

Transactions ==
    [f \in DOMAIN CliFunctions |->
        [i \in DOMAIN CliFunctions[f] |-> Summary(CliFunctions[f][i])]]

=============================================================================
