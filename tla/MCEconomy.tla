----------------------------- MODULE MCEconomy ------------------------------
(* Economy on two players, two item definitions and bags of two slots.     *)
(* The commands of a run come in campaigns, chosen by its configuration:   *)
(* a behaviour sends the commands of one of them.                          *)
EXTENDS Economy

CONSTANTS p, q, gold, gem, sword, potion,
          Campaigns    \* the commands of each, and its bound on the clock

VARIABLE campaign

Command(op, from, to, cur, amount, items) ==
    [op |-> op, player |-> from, peer |-> to, currency |-> cur,
     amount |-> amount, items |-> items]

Delta(d, n) == [def |-> d, n |-> n]

MCMaxStack == [d \in Defs |-> IF d = potion THEN 2 ELSE 1]

MCPrice ==
    [d \in Defs |-> [currency |-> gold, unit |-> 1, min |-> 1, max |-> 2]]

(* Every kind of command.  In all but swap and stock, items come one unit  *)
(* at a time, so that an Add is never partial; a transfer moves money or   *)
(* items, not both; and a purchase names the currency of the price.        *)
AllCommands ==
    [mint  |-> Command("AddCurrency", p, NoPlayer, gold, 2, <<>>),
     spend |-> Command("RemoveCurrency", q, NoPlayer, gold, 1, <<>>),
     send  |-> Command("Transfer", p, q, gold, 1, <<>>),
     gift  |-> Command("Transfer", p, q, NoCurrency, 0, <<Delta(sword, 1)>>),
     buy   |-> Command("Purchase", p, NoPlayer, gold, 0, <<Delta(sword, 1)>>),
     loot  |-> Command("Reward", p, NoPlayer, gold, 1,
                       <<Delta(sword, 1), Delta(potion, 1)>>),
     back  |-> Command("Refund", p, NoPlayer, gold, 1, <<Delta(sword, -1)>>),
     give  |-> Command("AddItem", q, NoPlayer, gold, 0, <<Delta(potion, 1)>>),
     take  |-> Command("RemoveItem", q, NoPlayer, gold, 0,
                       <<Delta(potion, -1), Delta(sword, -1)>>),
     swap  |-> Command("Transfer", p, q, gold, 1, <<Delta(sword, 1)>>),
     stock |-> Command("Purchase", p, NoPlayer, gold, 0, <<Delta(potion, 2)>>)]

MCCmd == [k \in Keys |-> AllCommands[k]]

Campaign(keys, ticks) == [keys |-> keys, ticks |-> ticks]

MCCampaigns ==
    {Campaign({"mint", "send", "buy", "loot", "spend"}, 2),
     Campaign({"buy", "loot", "gift", "back", "give", "take"}, 1)}

PendingCampaigns == {Campaign({"mint", "loot"}, 0)}

MixedCampaigns == {Campaign({"mint", "swap"}, 0)}

MCInit == Init /\ campaign \in Campaigns

MCNext ==
    /\ \/ \E k \in campaign.keys : Execute(k)
       \/ Flush
       \/ clock < campaign.ticks /\ Tick
    /\ UNCHANGED campaign

MCSpec == MCInit /\ [][MCNext]_<<vars, campaign>>

MCFairSpec == MCSpec /\ FlushFairness

=============================================================================
