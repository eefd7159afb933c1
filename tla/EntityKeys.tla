------------------------------ MODULE EntityKeys ------------------------------
(***************************************************************************)
(* The foreign keys that the relations of the entities make when a schema  *)
(* is synchronised: owner, join column and table referred to.              *)
(***************************************************************************)

\* A many-to-one or owning one-to-one relation of table t.
Relation(t, column, to) == [table |-> t, column |-> column, to |-> to]

BreakKey == {Relation("break_entity", "attendanceId", "attendance_entity")}

AttendanceKey ==
    {Relation("attendance_entity", "userId", "user_entity"),
     Relation("attendance_entity", "storeId", "store")}

WageKey ==
    {Relation("wage_entity", "attendanceId", "attendance_entity"),
     Relation("wage_entity", "userId", "user_entity")}

CustomerKey == {Relation("customer_entity", "store", "store")}

SupplierKey == {Relation("supplier", "storeId", "store")}

ContactKey ==
    {Relation("contact_information_entity", "userId", "user_entity"),
     Relation("contact_information_entity", "supplierId", "supplier"),
     Relation("contact_information_entity", "customerId", "customer_entity")}

RefundKey == {Relation("refund_transactions", "transactionId", "transaction_entity")}

RefundItemKey ==
    {Relation("refund_transaction_items", "refundId", "refund_transactions"),
     Relation("refund_transaction_items", "productId", "product_entity")}

ModifierOptionKey ==
    {Relation("modifier_options_entity", "product", "product_entity"),
     Relation("modifier_options_entity", "group", "modifier_groups_entity")}

GroupCategoryKey ==
    {Relation("modifier_groups_category_entity", "modifier_group_id", "modifier_groups_entity"),
     Relation("modifier_groups_category_entity", "category_id", "category_entity")}

StockKey ==
    {Relation("stock_control", "inventoryItemID", "inventory"),
     Relation("stock_control", "purchaseID", "purchases")}

PurchaseKey ==
    {Relation("purchases", "inventoryItemID", "inventory"),
     Relation("purchases", "storeID", "store"),
     Relation("purchases", "supplierID", "supplier")}

HoursKey == {Relation("opening_hours", "storeId", "store")}

CashKey == {Relation("cash_management_entity", "cashRegisterId", "cash_register_entity")}

RegisterKey ==
    {Relation("cash_register_entity", "userId", "user_entity"),
     Relation("cash_register_entity", "storeId", "store")}

ProductKey ==
    {Relation("product_entity", "category", "category_entity"),
     Relation("product_entity", "store", "store")}

ItemKey ==
    {Relation("transaction_item_entity", "product", "product_entity"),
     Relation("transaction_item_entity", "transaction", "transaction_entity")}

TransactionKey ==
    {Relation("transaction_entity", "cashRegister", "cash_register_entity"),
     Relation("transaction_entity", "store", "store"),
     Relation("transaction_entity", "customer", "customer_entity"),
     Relation("transaction_entity", "staff", "user_entity")}

DiscountTransactionKey == {Relation("discountTransactions", "discountId", "discounts")}

DiscountStoreKey == {Relation("discountStores", "discountId", "discounts")}

EntityKey ==
    BreakKey \cup AttendanceKey \cup WageKey \cup CustomerKey \cup SupplierKey
      \cup ContactKey \cup RefundKey \cup RefundItemKey \cup ModifierOptionKey
      \cup GroupCategoryKey \cup StockKey \cup PurchaseKey \cup HoursKey \cup CashKey
      \cup RegisterKey \cup ProductKey \cup ItemKey \cup TransactionKey
      \cup DiscountTransactionKey \cup DiscountStoreKey

\* Every entity owns a relation or is referred to by one.
EntityTable == {k.table : k \in EntityKey} \cup {k.to : k \in EntityKey}

\* Columns keys can be on: those of the relations, and storeID, which the
\* inventory entity declares as a plain column.
EntityColumn ==
    {<<k.table, k.column>> : k \in EntityKey} \cup {<<"inventory", "storeID">>}

=============================================================================
