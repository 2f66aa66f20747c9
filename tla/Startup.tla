------------------------------ MODULE Startup ------------------------------
(***************************************************************************)
(* How the Juice Shop server starts.  The checks of the environment, the   *)
(* cleaning of the ftp folder, the restoring of files and the training of  *)
(* the chat bot are started when the server is imported and are not waited *)
(* for; meanwhile the database is recreated and filled, and then the       *)
(* server listens and is customized.  A rejected promise nobody waits for  *)
(* ends the process.                                                       *)
(*                                                                         *)
(* Statements run in the order in which they are given to the database;    *)
(* a row that is not inserted leaves its id to the next one.               *)
(***************************************************************************)
EXTENDS Naturals, Sequences, FiniteSets

CONSTANTS
    StaticUsers,    \* sequence of [key, more]: the users of users.yml, and the tables their other rows are in
    Baskets,        \* sequence of user ids
    BasketItems,    \* sequence of [basket, product]
    Recycles,       \* sequence of [user, address]
    FakeUsers,      \* numberOfRandomFakeUsers
    Scenarios       \* set of [cfg, todo]: a configuration; bound: how often each thing happens, and the environment

ASSUME StartupAssumption ==
    /\ FakeUsers \in Nat
    /\ \A i \in DOMAIN Baskets : Baskets[i] \in DOMAIN StaticUsers
    /\ \A i \in DOMAIN Recycles : Recycles[i].user \in DOMAIN StaticUsers

VARIABLES
    cfg,        \* the configuration
    exit,       \* why the process ended, or "no"
    job,        \* how far the jobs are that nobody waits for
    wiped,      \* the tables were recreated
    creator,    \* which creator runs
    chains,     \* the promises of that creator
    queue,      \* statements on the way to the database
    rows,       \* table -> its rows
    gone,       \* the ids of the products that were deleted
    cached,     \* datacache: user -> id
    special,    \* datacache: special product -> id
    listening, routes,
    ftp, doomed,    \* the confirmations in the ftp folder, and those the cleaning has listed
    downloads,      \* the custom files that are on the way
    index,          \* the customizations of index.html
    planet,         \* the customizations of threejs-demo.html
    gauge, seen,    \* the gauge of the feedback, and the count an update has read
    todo,       \* bound
    failed,     \* history: what has failed
    placed,     \* history: the confirmations that were written
    early       \* history: the confirmations written before the ftp folder was listed

jobvars == <<cfg, exit, job>>
dbvars == <<wiped, creator, chains, queue, rows, gone, cached, special>>
webvars == <<listening, routes, ftp, doomed, downloads, index, planet, gauge, seen, placed, early>>
hist == <<todo, failed>>
vars == <<jobvars, dbvars, webvars, hist>>

Spend(k) == todo[k] > 0 /\ todo' = [todo EXCEPT ![k] = @ - 1]
Fail(what) == Spend("fail") /\ failed' = failed \cup {what}
FailIO == Spend("io") /\ failed' = failed \cup {"io"}

(* process.exit, or the end by a promise that was rejected.                *)
Up == exit = "no"
Exit(why) == exit' = why

-----------------------------------------------------------------------------
(* validateConfig.                                                         *)

specialProducts == {"christmas", "tampering", "blueprint", "pastebin"}
specialMemories == {"meta", "visual"}
MemoryUser == [meta |-> "john", visual |-> "emma"]
With(ps, s) == {i \in DOMAIN ps : s \in ps[i].specials}

checkYamlSchema(c) == c.schema

checkMinimumRequiredNumberOfProducts(c) == Len(c.products) >= 4

checkUnambiguousMandatorySpecialProducts(c) ==
    \A s \in specialProducts : Cardinality(With(c.products, s)) = 1

(* Variant: a product may be used for several challenges.                  *)
checkUniqueSpecialOnProductsNever(c) == TRUE

checkUniqueSpecialOnProducts(c) == \A i \in DOMAIN c.products : Cardinality(c.products[i].specials) <= 1

checkNecessaryExtraKeysOnSpecialProducts(c) ==
    LET ps == With(c.products, "blueprint") IN
    Cardinality(ps) = 1 => \A i \in ps : c.products[i].extra

checkMinimumRequiredNumberOfMemories(c) == Len(c.memories) >= 2

checkUnambiguousMandatorySpecialMemories(c) ==
    \A s \in specialMemories : Cardinality(With(c.memories, s)) = 1

checkUniqueSpecialOnMemories(c) == \A i \in DOMAIN c.memories : Cardinality(c.memories[i].specials) <= 1

checkSpecialMemoriesHaveNoUserAssociated(c) ==
    \A s \in specialMemories : \A i \in With(c.memories, s) : c.memories[i].user \in {"none", MemoryUser[s]}

checkForIllogicalCombos(c) == c.combos

Valid(c) ==
    /\ checkYamlSchema(c)
    /\ checkMinimumRequiredNumberOfProducts(c)
    /\ checkUnambiguousMandatorySpecialProducts(c)
    /\ checkUniqueSpecialOnProducts(c)
    /\ checkNecessaryExtraKeysOnSpecialProducts(c)
    /\ checkMinimumRequiredNumberOfMemories(c)
    /\ checkUnambiguousMandatorySpecialMemories(c)
    /\ checkUniqueSpecialOnMemories(c)
    /\ checkSpecialMemoriesHaveNoUserAssociated(c)
    /\ checkForIllogicalCombos(c)

-----------------------------------------------------------------------------
(* The import of server.ts: every job is started; validateConfig runs to   *)
(* its end, since it awaits nothing.                                       *)

importServer ==
    /\ Up /\ job.main = "import"
    /\ job' = [job EXCEPT !.main = "start"]
    /\ IF Valid(cfg) THEN UNCHANGED exit ELSE Exit("config")
    /\ UNCHANGED <<cfg, dbvars, webvars, hist>>

Imported == Up /\ job.main # "import"

(* The port is probed; the scan itself can fail.                           *)
checkIfPortIsAvailable ==
    /\ Imported /\ job.pre = "run"
    /\ \/ /\ job' = [job EXCEPT !.pre = IF todo.busy > 0 THEN "inuse" ELSE IF listening THEN "own" ELSE "free"]
          /\ UNCHANGED <<exit, hist>>
       \/ FailIO /\ Exit("port") /\ UNCHANGED job
    /\ UNCHANGED <<cfg, dbvars, webvars>>

(* The versions, the platform and the files of the build.                  *)
Environment == todo.broken = 0

validatePreconditions ==
    /\ Imported /\ job.pre \in {"inuse", "own", "free"}
    /\ job' = [job EXCEPT !.pre = "done"]
    /\ IF job.pre = "free" /\ Environment THEN UNCHANGED exit
       ELSE Exit(IF job.pre = "own" THEN "own port" ELSE "precondition")
    /\ UNCHANGED <<cfg, dbvars, webvars, hist>>

(* Variant: the folder is listed until it is empty.                        *)
cleanupFtpFolderUntilNone ==
    /\ Imported /\ job.ftp = "removing"
    /\ \/ doomed # {} /\ ftp' = ftp \ doomed /\ doomed' = ftp \ doomed /\ UNCHANGED job
       \/ doomed = {} /\ job' = [job EXCEPT !.ftp = "done"] /\ UNCHANGED <<ftp, doomed>>
    /\ UNCHANGED <<cfg, exit, dbvars, listening, routes, downloads, index, planet, gauge, seen, placed, early, hist>>

listFtpFolder ==
    /\ Imported /\ job.ftp = "glob"
    /\ job' = [job EXCEPT !.ftp = "removing"]
    /\ doomed' = ftp
    /\ UNCHANGED <<cfg, exit, dbvars, listening, routes, ftp, downloads, index, planet, gauge, seen, placed, early, hist>>

cleanupFtpFolder ==
    /\ Imported /\ job.ftp = "removing"
    /\ \/ \E f \in doomed : ftp' = ftp \ {f} /\ doomed' = doomed \ {f} /\ UNCHANGED <<job, hist>>
       \/ doomed = {} /\ job' = [job EXCEPT !.ftp = "done"] /\ UNCHANGED <<ftp, doomed, hist>>
       \/ FailIO /\ job' = [job EXCEPT !.ftp = "done"] /\ doomed' = {} /\ UNCHANGED ftp
    /\ UNCHANGED <<cfg, exit, dbvars, listening, routes, downloads, index, planet, gauge, seen, placed, early>>

(* restoreOverwrittenFilesWithOriginals: legal.md, the subtitles, then the *)
(* translations; only the last may fail without harm.  The routes are      *)
(* registered when it is done.                                             *)
restoreFile ==
    /\ Imported /\ job.restore \in {"legal", "subtitles"}
    /\ \/ job' = [job EXCEPT !.restore = IF @ = "legal" THEN "subtitles" ELSE "i18n"] /\ UNCHANGED hist
       \/ FailIO /\ job' = [job EXCEPT !.restore = "failed"]
    /\ UNCHANGED <<cfg, exit, dbvars, webvars>>

(* The handlers of every path.                                             *)
registerRoutes == routes' = TRUE

(* Variant: a translation that cannot be copied fails all of it.           *)
restoreOverwrittenFilesWithOriginalsOrFail ==
    /\ Imported /\ job.restore = "i18n"
    /\ \/ registerRoutes /\ job' = [job EXCEPT !.restore = "done"] /\ UNCHANGED hist
       \/ FailIO /\ job' = [job EXCEPT !.restore = "lost"] /\ UNCHANGED routes
    /\ UNCHANGED <<cfg, exit, dbvars, listening, ftp, doomed, downloads, index, planet, gauge, seen, placed, early>>

restoreOverwrittenFilesWithOriginals ==
    /\ Imported /\ job.restore = "i18n"
    /\ UNCHANGED hist \/ FailIO
    /\ registerRoutes
    /\ job' = [job EXCEPT !.restore = "done"]
    /\ UNCHANGED <<cfg, exit, dbvars, listening, ftp, doomed, downloads, index, planet, gauge, seen, placed, early>>

(* The training data are downloaded, validated and used.                   *)
validateChatBot(c) == c.intents

initializeChatbot ==
    /\ Imported /\ job.bot = "init"
    /\ \/ /\ job' = [job EXCEPT !.bot = "trained"]
          /\ IF validateChatBot(cfg) THEN UNCHANGED exit ELSE Exit("chatbot")
          /\ UNCHANGED hist
       \/ FailIO /\ Exit("chatbot") /\ UNCHANGED job
    /\ UNCHANGED <<cfg, dbvars, webvars>>

-----------------------------------------------------------------------------
(* datacreator.                                                            *)

Tables == {"SecurityQuestion", "User", "SecurityAnswer", "Feedback", "Address", "Card", "Challenge", "Hint",
           "Product", "Basket", "BasketItem", "Complaint", "Recycle", "Quantity", "Wallet", "Delivery", "Memory"}

Keys == {StaticUsers[i].key : i \in DOMAIN StaticUsers}
UserKey(id) == StaticUsers[id].key

(* A statement: refs are foreign keys, <<table, id, the row that is meant>>; *)
(* the id 0 stands for the row the chain has inserted first.  A chain is a *)
(* sequence of batches: a batch is given to the database at once, the next *)
(* one when it is done.                                                    *)
Row(table, key, refs) == [table |-> table, key |-> key, refs |-> refs]
One(row) == [id |-> 0, open |-> 1, rest |-> << <<row>> >>]
Each(s, row(_)) == [i \in DOMAIN s |-> One(row(i))]

UserRef(id) == <<"User", id, UserKey(id)>>

createSecurityQuestions == <<One(Row("SecurityQuestion", "q", {}))>>

(* The user; then the answer, the feedback, the deletion, the addresses    *)
(* and the cards that users.yml gives.                                     *)
createUsers ==
    [i \in DOMAIN StaticUsers |->
        [id |-> 0, open |-> 1,
         rest |-> << <<Row("User", UserKey(i), {})>> >>
                  \o [b \in DOMAIN StaticUsers[i].more |->
                        [n \in DOMAIN StaticUsers[i].more[b] |->
                            Row(StaticUsers[i].more[b][n], UserKey(i), {<<"User", 0, UserKey(i)>>})]]]]

createChallenges ==
    <<[id |-> 0, open |-> 1,
       rest |-> << <<Row("Challenge", "changeProduct", {})>>, <<Row("Hint", "h", {<<"Challenge", 0, "changeProduct">>})>> >>]>>

createRandomFakeUsers == [i \in 1..FakeUsers |-> One(Row("User", "fake", {}))]

ProductKey == <<"p1", "p2", "p3", "p4", "p5">>
createProducts == Each(cfg.products, LAMBDA i : Row("Product", ProductKey[i], {}))
createBaskets == Each(Baskets, LAMBDA i : Row("Basket", UserKey(Baskets[i]), {UserRef(Baskets[i])}))
createBasketItems ==
    Each(BasketItems, LAMBDA i :
        Row("BasketItem", "b", {<<"Basket", BasketItems[i].basket, UserKey(Baskets[BasketItems[i].basket])>>,
                                <<"Product", BasketItems[i].product, ProductKey[BasketItems[i].product]>>}))
createAnonymousFeedback == <<One(Row("Feedback", "f", {}))>>
createComplaints == <<One(Row("Complaint", "c", {UserRef(3)}))>>
createRecycleItem ==
    Each(Recycles, LAMBDA i :
        Row("Recycle", "r", {UserRef(Recycles[i].user), <<"Address", Recycles[i].address, UserKey(Recycles[i].user)>>}))
createQuantity == Each(cfg.products, LAMBDA i : Row("Quantity", "n", {<<"Product", i, ProductKey[i]>>}))
createWallet == Each(StaticUsers, LAMBDA i : Row("Wallet", "w", {UserRef(i)}))
createDeliveryMethods == <<One(Row("Delivery", "d", {}))>>

(* The owner of a memory comes from the cache of the users; a special      *)
(* memory has a security answer first.                                     *)
Owner(m) ==
    IF "visual" \in m.specials THEN "emma" ELSE IF "meta" \in m.specials THEN "john" ELSE m.user
createMemory(m) ==
    LET refs == {<<"User", cached[Owner(m)], Owner(m)>>}
        answers == IF m.specials = {} THEN <<>> ELSE << <<Row("SecurityAnswer", Owner(m), refs)>> >>
    IN [id |-> 0, open |-> 1, rest |-> answers \o << <<Row("Memory", Owner(m), refs)>> >>]
Owned == SelectSeq(cfg.memories, LAMBDA m : Owner(m) # "none")
createMemories ==
    <<One(Row("Memory", "bjoernOwasp", {<<"User", cached["bjoernOwasp"], "bjoernOwasp">>}))>>
    \o [i \in DOMAIN Owned |-> createMemory(Owned[i])]

(* Variant: the fake users come first.                                     *)
creatorsFakeFirst ==
    <<"SecurityQuestions", "RandomFakeUsers", "Users", "Challenges", "Products", "Baskets", "BasketItems",
      "AnonymousFeedback", "Complaints", "RecycleItem", "Orders", "Quantity", "Wallet", "DeliveryMethods",
      "Memories", "Filesystem">>

(* Variant: the products come before the challenges.                       *)
creatorsProductsEarly ==
    <<"SecurityQuestions", "Users", "Products", "Challenges", "RandomFakeUsers", "Baskets", "BasketItems",
      "AnonymousFeedback", "Complaints", "RecycleItem", "Orders", "Quantity", "Wallet", "DeliveryMethods",
      "Memories", "Filesystem">>

creators ==
    <<"SecurityQuestions", "Users", "Challenges", "RandomFakeUsers", "Products", "Baskets", "BasketItems",
      "AnonymousFeedback", "Complaints", "RecycleItem", "Orders", "Quantity", "Wallet", "DeliveryMethods",
      "Memories", "Filesystem">>

(* createOrders and prepareFilesystem have no statements.                  *)
ChainsOf(name) ==
    CASE name = "SecurityQuestions" -> createSecurityQuestions
      [] name = "Users" -> createUsers
      [] name = "Challenges" -> createChallenges
      [] name = "RandomFakeUsers" -> createRandomFakeUsers
      [] name = "Products" -> createProducts
      [] name = "Baskets" -> createBaskets
      [] name = "BasketItems" -> createBasketItems
      [] name = "AnonymousFeedback" -> createAnonymousFeedback
      [] name = "Complaints" -> createComplaints
      [] name = "RecycleItem" -> createRecycleItem
      [] name = "Quantity" -> createQuantity
      [] name = "Wallet" -> createWallet
      [] name = "DeliveryMethods" -> createDeliveryMethods
      [] name = "Memories" -> createMemories
      [] OTHER -> <<>>

(* loadStaticData answers undefined when a file cannot be read.            *)
loadStaticData == {"SecurityQuestions", "Users", "Challenges", "Wallet", "DeliveryMethods"}

(* What a creator takes for granted: createOrders the first four products, *)
(* createMemories the users in the cache.                                  *)
createOrders == Len(cfg.products) >= 4
InCache(key) == key \in Keys /\ cached[key] # 0
Throws(name) ==
    \/ name = "Orders" /\ ~createOrders
    \/ name = "Memories" /\ (~InCache("bjoernOwasp") \/ \E i \in DOMAIN Owned : ~InCache(Owner(Owned[i])))

Statement(k, row) == [chain |-> k, op |-> IF row.table = "delete" THEN "delete" ELSE "insert", row |-> row]
Batch(k, ch) == [n \in DOMAIN Head(ch.rest) |-> Statement(k, Head(ch.rest)[n])]
FirstBatches(cs) == [k \in DOMAIN cs |-> Statement(k, Head(cs[k].rest)[1])]

(* The creators run one after the other.                                   *)
begin(n) ==
    LET name == creators[n] IN
    \/ /\ ~Throws(name)
       /\ creator' = n
       /\ chains' = ChainsOf(name)
       /\ queue' = queue \o FirstBatches(ChainsOf(name))
       /\ UNCHANGED <<exit, hist>>
    \/ Throws(name) /\ Exit("reference") /\ UNCHANGED <<creator, chains, queue, hist>>
    \/ name \in loadStaticData /\ Fail("static") /\ Exit("static") /\ UNCHANGED <<creator, chains, queue>>

(* start: sequelize.sync({ force: true }), then the creators.              *)
start ==
    /\ Imported /\ job.main = "start"
    /\ wiped' = TRUE
    /\ rows' = [t \in Tables |-> <<>>]
    /\ job' = [job EXCEPT !.main = "fill"]
    /\ UNCHANGED <<cfg, exit, creator, chains, queue, gone, cached, special, webvars, hist>>

nextCreator ==
    /\ Imported /\ job.main = "fill" /\ creator < Len(creators)
    /\ \A k \in DOMAIN chains : chains[k].rest = <<>>
    /\ begin(creator + 1)
    /\ UNCHANGED <<cfg, job, wiped, rows, gone, cached, special, webvars>>

(* A statement of a batch is done; the last one brings the next batch.     *)
Advanced(ch) ==
    IF ch.open > 1 THEN [ch EXCEPT !.open = @ - 1]
    ELSE [ch EXCEPT !.rest = Tail(@), !.open = IF Len(ch.rest) > 1 THEN Len(ch.rest[2]) ELSE 0]
Following(k, ch) == IF ch.open = 1 /\ Len(ch.rest) > 1 THEN Batch(k, Advanced(ch)) ELSE <<>>

Refs(q) == {<<r[1], IF r[2] = 0 THEN chains[q.chain].id ELSE r[2], r[3]>> : r \in q.row.refs}

(* Variant: the database does not enforce foreign keys.                    *)
relationsInitNone(q) == TRUE

(* The foreign keys are enforced.                                          *)
relationsInit(q) == \A r \in Refs(q) : r[2] \in DOMAIN rows[r[1]]

(* The products createProducts marks; the last of several with the same    *)
(* special is the one in the cache.                                        *)
Found(s) == IF With(cfg.products, s) = {} THEN 0
            ELSE CHOOSE i \in With(cfg.products, s) : \A j \in With(cfg.products, s) : i <= j
Deleted(i) == i = Found("pastebin") \/ (i = Found("christmas") /\ i # Found("tampering"))

inserted(q) ==
    LET id == Len(rows[q.row.table]) + 1
        ch == chains[q.chain]
    IN /\ rows' = [rows EXCEPT ![q.row.table] = Append(@, [key |-> q.row.key, refs |-> Refs(q)])]
       /\ cached' = IF q.row.table \in {"User", "Challenge"} /\ q.row.key \in DOMAIN cached
                    THEN [cached EXCEPT ![q.row.key] = id] ELSE cached
       /\ chains' = [chains EXCEPT ![q.chain] =
                        Advanced(IF q.row.table \in {"User", "Challenge"} THEN [ch EXCEPT !.id = id] ELSE ch)]
       /\ queue' = Tail(queue) \o Following(q.chain, ch)
       /\ UNCHANGED <<exit, special, gone>>

(* Then the caches, the deletion nobody waits for, and the reviews, whose  *)
(* authors are looked up.                                                  *)
productInserted(q) ==
    LET id == Len(rows["Product"]) + 1
        p == cfg.products[q.chain]
    IN /\ rows' = [rows EXCEPT !["Product"] = Append(@, [key |-> q.row.key, refs |-> {}])]
       /\ special' = [s \in DOMAIN special |-> IF s \in p.specials THEN id ELSE special[s]]
       /\ chains' = [chains EXCEPT ![q.chain] = Advanced(@)]
       /\ queue' = Tail(queue) \o
                   (IF Deleted(q.chain) THEN <<[chain |-> id, op |-> "delete", row |-> Row("Product", q.row.key, {})]>> ELSE <<>>)
       /\ IF ("tampering" \in p.specials /\ cached["changeProduct"] = 0) \/ (p.author # "none" /\ ~InCache(p.author))
          THEN Exit("reference") ELSE UNCHANGED exit
       /\ UNCHANGED <<cached, gone>>

(* Variant: a product that is not inserted is only logged.                 *)
notInsertedLogged(q) ==
    LET ch == chains[q.chain]
        ends == q.row.table \in {"User", "Challenge"}
    IN /\ chains' = [chains EXCEPT ![q.chain] = IF ends THEN [@ EXCEPT !.rest = <<>>, !.open = 0] ELSE Advanced(@)]
       /\ queue' = Tail(queue) \o (IF ends THEN <<>> ELSE Following(q.chain, ch))
       /\ UNCHANGED <<rows, cached, special, gone, exit>>

(* A user or a challenge that is not inserted has no other rows; without a *)
(* product or a fake user the promise is rejected; the rest is logged.     *)
notInserted(q) ==
    LET ch == chains[q.chain]
        fatal == q.row.table = "Product" \/ (q.row.table = "User" /\ q.row.key = "fake")
        ends == q.row.table \in {"User", "Challenge"}
    IN /\ IF fatal THEN Exit("insert") ELSE UNCHANGED exit
       /\ chains' = [chains EXCEPT ![q.chain] = IF ends THEN [@ EXCEPT !.rest = <<>>, !.open = 0] ELSE Advanced(@)]
       /\ queue' = Tail(queue) \o (IF ends THEN <<>> ELSE Following(q.chain, ch))
       /\ UNCHANGED <<rows, cached, special, gone>>

(* The database runs the first statement of the queue.                     *)
runInsert ==
    /\ Up /\ queue # <<>> /\ Head(queue).op = "insert"
    /\ LET q == Head(queue) IN
       \/ /\ relationsInit(q) /\ IF q.row.table = "Product" THEN productInserted(q) ELSE inserted(q)
          /\ UNCHANGED hist
       \/ notInserted(q) /\ Fail(q.row.table)
       \/ ~relationsInit(q) /\ notInserted(q) /\ failed' = failed \cup {q.row.table} /\ UNCHANGED todo
    /\ UNCHANGED <<cfg, job, wiped, creator, webvars>>

deleteProduct ==
    /\ Up /\ queue # <<>> /\ Head(queue).op = "delete" /\ Head(queue).row.table = "Product"
    /\ queue' = Tail(queue)
    /\ \/ gone' = gone \cup {Head(queue).chain} /\ UNCHANGED hist
       \/ Fail("delete") /\ UNCHANGED gone
    /\ UNCHANGED <<jobvars, wiped, creator, chains, rows, cached, special, webvars>>

(* A failure is logged, too.                                               *)
deleteUser ==
    /\ Up /\ queue # <<>> /\ Head(queue).op = "delete" /\ Head(queue).row.table = "delete"
    /\ LET q == Head(queue) IN
       /\ chains' = [chains EXCEPT ![q.chain] = Advanced(@)]
       /\ queue' = Tail(queue) \o Following(q.chain, chains[q.chain])
    /\ UNCHANGED <<jobvars, wiped, creator, rows, gone, cached, special, webvars, hist>>

-----------------------------------------------------------------------------
(* Listening.                                                              *)

Custom == {"title", "theme", "cookies", "favicon"}

(* customizeApplication: title, theme and banner at once, the icon when it *)
(* is there.                                                               *)
customizeApplication ==
    /\ downloads' = cfg.urls
    /\ index' = IF "favicon" \in cfg.urls THEN Custom \ {"favicon"} ELSE Custom
customizeEasterEgg == planet' = IF "overlay" \in cfg.urls THEN {} ELSE {"overlay", "title"}

(* The data are there: the metrics loop starts, listen is called and the   *)
(* customization begins.                                                   *)
dataCreated ==
    /\ Imported /\ job.main = "fill" /\ creator = Len(creators)
    /\ job' = [job EXCEPT !.main = "listen", !.metrics = "idle"]
    /\ customizeApplication
    /\ customizeEasterEgg
    /\ UNCHANGED <<cfg, exit, dbvars, listening, routes, ftp, doomed, gauge, seen, placed, early, hist>>

(* The callback of listen; a port in use is an error nobody handles.       *)
listen ==
    /\ Imported /\ job.main = "listen"
    /\ job' = [job EXCEPT !.main = "ready"]
    /\ IF todo.busy > 0 THEN Exit("port") /\ UNCHANGED listening ELSE listening' = TRUE /\ UNCHANGED exit
    /\ UNCHANGED <<cfg, dbvars, routes, ftp, doomed, downloads, index, planet, gauge, seen, placed, early, hist>>

(* Variant: the page is read before the icon is there.                     *)
customizeFaviconStale == index' = {"title", "favicon"}

customizeFavicon == index' = index \cup {"favicon"}

(* retrieveCustomFile, and what follows; a failure is only logged, but an  *)
(* avatar that is not there cannot be copied.                              *)
retrieveCustomFile(f) ==
    /\ Up /\ f \in downloads
    /\ downloads' = downloads \ {f}
    /\ IF f = "favicon" THEN customizeFavicon ELSE UNCHANGED index
    /\ planet' = IF f = "overlay" THEN {"overlay", "title"} ELSE planet
    /\ \/ UNCHANGED <<exit, hist>>
       \/ FailIO /\ IF f = "avatar" THEN Exit("avatar") ELSE UNCHANGED exit
    /\ UNCHANGED <<cfg, job, dbvars, listening, routes, ftp, doomed, gauge, seen, placed, early>>

(* The metrics loop: the counts, then the gauges; a count of 0 is not set. *)
observeMetrics ==
    /\ Up /\ job.metrics = "idle"
    /\ seen' = Len(rows["Feedback"])
    /\ job' = [job EXCEPT !.metrics = "counted"]
    /\ UNCHANGED <<cfg, exit, dbvars, listening, routes, ftp, doomed, downloads, index, planet, gauge, placed, early, hist>>

(* Variant: a gauge that is set stays as it is.                            *)
setGaugesOnce == gauge' = IF gauge = 0 THEN seen ELSE gauge

setGauges == gauge' = IF seen # 0 THEN seen ELSE gauge

countsRead ==
    /\ Up /\ job.metrics = "counted"
    /\ job' = [job EXCEPT !.metrics = "idle"]
    /\ setGauges
    /\ UNCHANGED <<cfg, exit, dbvars, listening, routes, ftp, doomed, downloads, index, planet, seen, placed, early, hist>>

-----------------------------------------------------------------------------
(* Requests: an order leaves its confirmation in the ftp folder; feedback  *)
(* is given and removed.                                                   *)
Serves == Up /\ listening /\ routes

placeOrder ==
    /\ Serves /\ Spend("order")
    /\ ftp' = ftp \cup {"order"}
    /\ placed' = placed \cup {"order"}
    /\ early' = IF job.ftp = "glob" THEN early \cup {"order"} ELSE early
    /\ UNCHANGED <<jobvars, dbvars, listening, routes, doomed, downloads, index, planet, gauge, seen, failed>>

postFeedback ==
    /\ Serves /\ Spend("post")
    /\ rows' = [rows EXCEPT !["Feedback"] = Append(@, [key |-> "f", refs |-> {}])]
    /\ UNCHANGED <<jobvars, wiped, creator, chains, queue, gone, cached, special, webvars, failed>>

deleteFeedback ==
    /\ Serves /\ rows["Feedback"] # <<>> /\ Spend("remove")
    /\ rows' = [rows EXCEPT !["Feedback"] = Tail(@)]
    /\ UNCHANGED <<jobvars, wiped, creator, chains, queue, gone, cached, special, webvars, failed>>

(* SIGINT and SIGTERM.                                                     *)
close ==
    /\ Imported /\ Spend("signal")
    /\ Exit("signal")
    /\ UNCHANGED <<cfg, job, dbvars, webvars, failed>>

-----------------------------------------------------------------------------
Init ==
    /\ \E s \in Scenarios : cfg = s.cfg /\ todo = s.todo
    /\ exit = "no"
    /\ job = [main |-> "import", pre |-> "run", ftp |-> "glob", restore |-> "legal", bot |-> "init", metrics |-> "off"]
    /\ wiped = FALSE /\ creator = 0 /\ chains = <<>> /\ queue = <<>>
    /\ rows = [t \in Tables |-> <<>>]
    /\ gone = {}
    /\ cached = [k \in Keys \cup {"changeProduct"} |-> 0]
    /\ special = [s \in {"christmas", "tampering"} |-> 0]
    /\ listening = FALSE /\ routes = FALSE
    /\ ftp = {"old"} /\ doomed = {}
    /\ downloads = {} /\ index = {} /\ planet = {}
    /\ gauge = 0 /\ seen = 0
    /\ failed = {} /\ placed = {} /\ early = {}

Run ==
    \/ importServer
    \/ checkIfPortIsAvailable \/ validatePreconditions
    \/ listFtpFolder \/ cleanupFtpFolder
    \/ restoreFile \/ restoreOverwrittenFilesWithOriginals
    \/ initializeChatbot
    \/ start \/ nextCreator \/ runInsert \/ deleteProduct \/ deleteUser
    \/ dataCreated \/ listen
    \/ \E f \in downloads : retrieveCustomFile(f)

Observe == observeMetrics \/ countsRead
Request == placeOrder \/ postFeedback \/ deleteFeedback \/ close

Next == Run \/ Observe \/ Request

(* The event loop runs, and so does the timer of the metrics.              *)
Fairness == WF_vars(Run) /\ WF_vars(Observe)

Spec == Init /\ [][Next]_vars /\ Fairness

-----------------------------------------------------------------------------
(* Properties.                                                             *)

Filled == job.main \in {"listen", "ready"}
Meant(t) == \A n \in DOMAIN rows[t] : \A r \in rows[t][n].refs : rows[r[1]][r[2]].key = r[3]

(* The variables have the values the code gives them.                      *)
TypeOK ==
    /\ exit \in {"no", "config", "precondition", "own port", "port", "chatbot", "reference", "static", "insert",
                 "avatar", "signal"}
    /\ routes = (job.restore = "done")
    /\ \A t \in Tables : \A n \in DOMAIN rows[t] : \A r \in rows[t][n].refs : r[2] \in DOMAIN rows[r[1]]
    /\ \A k \in DOMAIN chains : chains[k].open = 0 <=> chains[k].rest = <<>>
    /\ index \subseteq Custom /\ downloads \subseteq cfg.urls

(* The creators write down ids: wallets and baskets those of users,        *)
(* quantities and basket items those of products, recycled boxes those of  *)
(* addresses, which are inserted by many promises at once.  Unless an      *)
(* insert failed each row refers to the row that is meant.                 *)
RefsAsMeant == Filled /\ failed \subseteq {"io"} => \A t \in Tables : Meant(t)

(* The quantities are those of their products even if inserts failed.      *)
StockOfItsProduct == Filled => Meant("Quantity")

(* A start with a valid configuration that names users of users.yml, in a  *)
(* sound environment and without a failure, does not end the process,      *)
(* except that the port may be probed when the server itself listens.      *)
KnownUsers ==
    /\ \A i \in DOMAIN cfg.products : cfg.products[i].author \in Keys \cup {"none"}
    /\ \A i \in DOMAIN cfg.memories : cfg.memories[i].user \in Keys \cup {"none"}
HealthyStart ==
    exit \in {"reference", "insert", "precondition", "port"} =>
        ~KnownUsers \/ failed # {} \/ ~Environment \/ todo.busy > 0

(* Once the statements have run, the products that are to be deleted are,  *)
(* and the one that visitors are to find is not.                           *)
SpecialProducts ==
    Filled /\ queue = <<>> /\ failed \subseteq {"io"} =>
        /\ special["tampering"] \notin gone
        /\ Cardinality(gone) = 2 /\ special["christmas"] \in gone

(* A confirmation stays in the ftp folder although the folder is still     *)
(* being cleaned, unless it was there when the folder was listed.          *)
ConfirmationsKept == placed \ early \subseteq ftp

(* When the downloads are done the page has every customization.           *)
PageCustomized == Filled /\ downloads = {} => index = Custom /\ planet = {"overlay", "title"}

(* The shop is served in the end, with its routes and the bot, unless the  *)
(* process ended or legal.md or the subtitles could not be restored.       *)
Ready ==
    <>(exit # "no" \/ job.restore = "failed")
    \/ <>[](listening /\ routes /\ job.bot = "trained" /\ downloads = {} /\ job.ftp = "done")

(* The gauge catches up with the feedback; only 0 is never shown.          *)
GaugeCatchesUp == []<>(exit # "no" \/ gauge = Len(rows["Feedback"]) \/ rows["Feedback"] = <<>>)

(* The rows of datacreator.ts are those that are meant: references by id,  *)
(* the stock of each product, the products that are to be deleted.         *)
RowsAsMeant == TypeOK /\ RefsAsMeant /\ StockOfItsProduct /\ SpecialProducts

(* A sound start goes on (validatePreconditions, validateConfig), and the  *)
(* files that several promises work on are neither lost nor overwritten    *)
(* (cleanupFtpFolder, customizeApplication).                               *)
StartIsSound == HealthyStart /\ ConfirmationsKept /\ PageCustomized

(* The shop gets ready, and the loop of observeMetrics keeps up with it.   *)
ShopIsServed == Ready /\ GaugeCatchesUp
=============================================================================
