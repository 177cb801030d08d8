------------------------------- MODULE Office -------------------------------
(***************************************************************************)
(* The parts of the server that share no row with the counter's ledgers or  *)
(* with one another: quotes and the bills sold from them, image files, the  *)
(* incremental pull, the followed log level, payment accounts, the small    *)
(* registers, and the counters of attempts.  No property is about two of    *)
(* them, and no step of one reads another, so a behaviour is of one part and *)
(* the rest stands still.                                                   *)
(***************************************************************************)
EXTENDS Quotes, Images, Pull, Config, Accounts, Registers, RateLimit

CONSTANT Parts      \* the parts looked at

ASSUME OfficeAssumption ==
    Parts \subseteq {"quotes", "pictures", "photos", "pull", "config", "accounts", "registers",
                      "attempts"}

VARIABLE part       \* the part this behaviour is of

officeVars == <<quoteVars, imageVars, pullVars, configVars, accountVars, registerVars,
               limitVars, part>>

OfficeInit ==
    /\ QuotesInit /\ ImagesInit /\ PullInit /\ ConfigInit /\ AccountsInit /\ RegistersInit
    /\ RateLimitInit
    /\ part \in Parts

Still(p) ==
    /\ p # "quotes" => UNCHANGED quoteVars
    /\ p \notin {"pictures", "photos"} => UNCHANGED imageVars
    /\ p # "pull" => UNCHANGED pullVars
    /\ p # "config" => UNCHANGED configVars
    /\ p # "accounts" => UNCHANGED accountVars
    /\ p # "registers" => UNCHANGED registerVars
    /\ p # "attempts" => UNCHANGED limitVars

Only(p) == part = p /\ UNCHANGED part /\ Still(p)
OfficeNext ==
    \/ Only("quotes") /\ QuotesNext
    \/ Only("pictures") /\ PicturesNext
    \/ Only("photos") /\ PhotosNext
    \/ Only("pull") /\ PullNext
    \/ Only("config") /\ ConfigNext
    \/ Only("accounts") /\ AccountsNext
    \/ Only("registers") /\ RegistersNext
    \/ Only("attempts") /\ RateLimitNext

OfficeSpec == OfficeInit /\ [][OfficeNext]_officeVars
=============================================================================
