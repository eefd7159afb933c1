---------------------------- MODULE SchemaFiles ----------------------------
(***************************************************************************)
(* The files of db/migrations: for each, the statements of its up and of   *)
(* its down in their order, and its turn: the rank of the timestamp that   *)
(* ends the name of its class, which TypeORM runs the migrations by.  Of a *)
(* table's columns only those that some foreign key is created on are kept. *)
(***************************************************************************)
EXTENDS Naturals, Sequences

\* createTable, which fails on a table that exists unless told to skip it.
Create(t, columns) ==
    [do |-> "create", table |-> t, columns |-> columns, column |-> "id", to |-> t]
CreateMissing(t, columns) == [Create(t, columns) EXCEPT !.do = "createMissing"]

\* createTable with a column of a type that PostgreSQL does not know.
CreateUntyped(t) == [Create(t, {}) EXCEPT !.do = "createUntyped"]

\* createForeignKey: a column of t refers to the ids of another table.
Key(t, column, to) ==
    [do |-> "key", table |-> t, columns |-> {}, column |-> column, to |-> to]

\* The key found by its column is dropped; a table is dropped with the keys
\* it owns, by dropTable or by DROP TABLE alike.
DropKey(t, column) == [Key(t, column, t) EXCEPT !.do = "dropKey"]
Drop(t) == [Create(t, {}) EXCEPT !.do = "drop"]

\* Mutant of InitUser: the down forgets the second table.
InitUserLeaving ==
    [turn |-> 1,
     up |-> <<CreateMissing("user_entity", {}),
              CreateMissing("contact_information_entity", {"userId"}),
              Key("contact_information_entity", "userId", "user_entity")>>,
     down |-> <<DropKey("contact_information_entity", "userId"), Drop("user_entity")>>]

InitUser ==
    [turn |-> 1,
     up |-> <<CreateMissing("user_entity", {}),
              CreateMissing("contact_information_entity", {"userId"}),
              Key("contact_information_entity", "userId", "user_entity")>>,
     down |-> <<DropKey("contact_information_entity", "userId"),
                Drop("user_entity"), Drop("contact_information_entity")>>]

InitCustomer ==
    [turn |-> 3,
     up |-> <<Create("customer_entity", {"store"}), Key("customer_entity", "store", "store")>>,
     down |-> <<DropKey("customer_entity", "store"), Drop("customer_entity")>>]

\* Mutant of InitCategory: a table no entity is mapped to.
InitCategoryPlural ==
    [turn |-> 4,
     up |-> <<Create("categories", {})>>,
     down |-> <<Drop("categories")>>]

\* Mutant of InitCategory: a table that exists is skipped.
InitCategoryMissing ==
    [turn |-> 4,
     up |-> <<CreateMissing("category_entity", {})>>,
     down |-> <<Drop("category_entity")>>]

InitCategory ==
    [turn |-> 4,
     up |-> <<Create("category_entity", {})>>,
     down |-> <<Drop("category_entity")>>]

InitProduct ==
    [turn |-> 5,
     up |-> <<Create("product_entity", {"category", "store"}),
              Key("product_entity", "category", "category_entity"),
              Key("product_entity", "store", "store")>>,
     down |-> <<DropKey("product_entity", "category"), DropKey("product_entity", "store"),
                Drop("product_entity")>>]

InitTransaction ==
    [turn |-> 6,
     up |-> <<Create("transaction_entity", {"customer", "staff", "store"}),
              Key("transaction_entity", "customer", "customer_entity"),
              Key("transaction_entity", "staff", "user_entity"),
              Key("transaction_entity", "store", "store")>>,
     down |-> <<DropKey("transaction_entity", "customer"),
                DropKey("transaction_entity", "store"),
                DropKey("transaction_entity", "staff"), Drop("transaction_entity")>>]

InitInventory ==
    [turn |-> 7,
     up |-> <<CreateMissing("inventory", {"storeID"}), Key("inventory", "storeID", "store")>>,
     down |-> <<Drop("inventory")>>]

\* Mutant of InitAttendance: the tables in the order their keys need.
InitAttendanceInOrder ==
    [turn |-> 2,
     up |-> <<Create("attendance_entity", {"storeId", "userId"}),
              Create("break_entity", {"attendanceId"}),
              Key("break_entity", "attendanceId", "attendance_entity"),
              Key("attendance_entity", "storeId", "store"),
              Key("attendance_entity", "userId", "user_entity")>>,
     down |-> <<DropKey("attendance_entity", "userId"),
                DropKey("attendance_entity", "storeId"), Drop("attendance_entity")>>]

InitAttendance ==
    [turn |-> 2,
     up |-> <<Create("break_entity", {"attendanceId"}),
              Key("break_entity", "attendanceId", "attendance_entity"),
              Create("attendance_entity", {"storeId", "userId"}),
              Key("attendance_entity", "storeId", "store"),
              Key("attendance_entity", "userId", "user_entity")>>,
     down |-> <<DropKey("attendance_entity", "userId"),
                DropKey("attendance_entity", "storeId"), Drop("attendance_entity")>>]

InitOpeningHours ==
    [turn |-> 8,
     up |-> <<Create("opening_hours", {"store_id"}), Key("opening_hours", "store_id", "store")>>,
     down |-> <<DropKey("opening_hours", "store_id"), Drop("opening_hours")>>]

\* The type of zipCode is misspelt.
InitStores ==
    [turn |-> 9,
     up |-> <<CreateUntyped("store")>>,
     down |-> <<Drop("store")>>]

InitDiscounts ==
    [turn |-> 10,
     up |-> <<Create("discounts", {})>>,
     down |-> <<Drop("discounts")>>]

InitDiscountStores ==
    [turn |-> 11,
     up |-> <<Create("discount_stores", {})>>,
     down |-> <<Drop("discount_stores")>>]

InitDiscountTransactions ==
    [turn |-> 9,
     up |-> <<Create("discount_transactions", {})>>,
     down |-> <<Drop("discount_transactions")>>]

InitWage ==
    [turn |-> 12,
     up |-> <<Create("wage_entity", {"attendanceId"}),
              Key("wage_entity", "attendanceId", "attendance_entity")>>,
     down |-> <<DropKey("wage_entity", "attendanceId"), Drop("wage_entity")>>]

InitBreak ==
    [turn |-> 13,
     up |-> <<Create("break_entity", {"attendanceId"}),
              Key("break_entity", "attendanceId", "attendance_entity")>>,
     down |-> <<DropKey("break_entity", "attendanceId"), Drop("break_entity")>>]

\* Its down looks for a column named after the other table.
InitTransactionItem ==
    [turn |-> 14,
     up |-> <<Create("transaction_item_entity", {"product", "transaction"}),
              Key("transaction_item_entity", "product", "product_entity"),
              Key("transaction_item_entity", "transaction", "transaction_entity")>>,
     down |-> <<DropKey("transaction_item_entity", "product"),
                DropKey("transaction_item_entity", "transaction_entity"),
                Drop("transaction_item_entity")>>]

InitSupplier ==
    [turn |-> 15,
     up |-> <<Create("supplier", {})>>,
     down |-> <<Drop("supplier")>>]

InitModifierGroups ==
    [turn |-> 16,
     up |-> <<Create("modifier_groups_entity", {})>>,
     down |-> <<Drop("modifier_groups_entity")>>]

InitModifierOptions ==
    [turn |-> 17,
     up |-> <<Create("modifier_options_entity", {"group", "product"}),
              Key("modifier_options_entity", "group", "modifier_groups_entity"),
              Key("modifier_options_entity", "product", "product_entity")>>,
     down |-> <<DropKey("modifier_options_entity", "group"),
                DropKey("modifier_options_entity", "product"), Drop("modifier_options_entity")>>]

InitModifierGroupsCategory ==
    [turn |-> 18,
     up |-> <<Create("modifier_groups_category_entity", {"modifier_group_id", "category_id"}),
              Key("modifier_groups_category_entity", "modifier_group_id", "modifier_groups_entity"),
              Key("modifier_groups_category_entity", "category_id", "category_entity")>>,
     down |-> <<Drop("modifier_groups_category_entity")>>]

\* The type datetime is of other databases, the key is created on a column the
\* table is not given, and the down names another table.
InitRefund ==
    [turn |-> 19,
     up |-> <<CreateUntyped("refund_transactions"),
              Key("refund_transactions", "transaction_id", "transaction_entity")>>,
     down |-> <<DropKey("refund_transaction_entity", "transaction_id"),
                Drop("refund_transaction_entity")>>]

\* The files by the timestamps of their names, the order they were added in.
\* They are run by turn: the seventh comes second, the twelfth shares its turn
\* with the ninth.
Migration ==
    <<InitUser, InitCustomer, InitCategory, InitProduct, InitTransaction, InitInventory,
      InitAttendance, InitOpeningHours, InitStores, InitDiscounts, InitDiscountStores,
      InitDiscountTransactions, InitWage, InitBreak, InitTransactionItem, InitSupplier,
      InitModifierGroups, InitModifierOptions, InitModifierGroupsCategory, InitRefund>>

=============================================================================
