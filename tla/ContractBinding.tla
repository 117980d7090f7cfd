-------------------------- MODULE ContractBinding --------------------------
(*****************************************************************************)
(* What the generated server reads of a request before any handler runs:     *)
(* for each operation the security schemes it puts in the context and the    *)
(* parameters it binds from the path and the query (ServerInterfaceWrapper). *)
(* A table per resource, an entry per operation.                             *)
(*****************************************************************************)
EXTENDS TLC

\* One operation's entry.
Binds(schemes, path, query) == [schemes |-> schemes, path |-> path, query |-> query]

\* Staff accounts.
StaffCollection == [
  AdminListAdminUsers  |-> Binds({"adminJWT"}, {}, {"role", "is_active", "page", "limit"}),
  AdminCreateAdminUser |-> Binds({"adminJWT"}, {}, {})]

StaffItem == [
  AdminDeactivateAdminUser |-> Binds({"adminJWT"}, {"adminUserId"}, {}),
  AdminGetAdminUser        |-> Binds({"adminJWT"}, {"adminUserId"}, {}),
  AdminUpdateAdminUser     |-> Binds({"adminJWT"}, {"adminUserId"}, {})]

\* Staff sessions.
Sessions == [
  AdminLogin   |-> Binds({}, {}, {}),
  AdminLogout  |-> Binds({"adminJWT"}, {}, {}),
  GetAdminMe   |-> Binds({"adminJWT"}, {}, {}),
  AdminRefresh |-> Binds({}, {}, {})]

\* Categories, for staff.
CategoryCollection == [
  AdminListCategories |-> Binds({"adminJWT"}, {}, {"parent_id", "is_active", "page", "limit"}),
  AdminCreateCategory |-> Binds({"adminJWT"}, {}, {})]

CategoryItem == [
  AdminDeleteCategory |-> Binds({"adminJWT"}, {"categoryId"}, {}),
  AdminGetCategory    |-> Binds({"adminJWT"}, {"categoryId"}, {}),
  AdminUpdateCategory |-> Binds({"adminJWT"}, {"categoryId"}, {})]

\* Delivery methods, for staff.
DeliveryMethodCollection == [
  AdminListDeliveryMethods  |-> Binds({"adminJWT"}, {}, {"page", "limit"}),
  AdminCreateDeliveryMethod |-> Binds({"adminJWT"}, {}, {})]

DeliveryMethodItem == [
  AdminDeleteDeliveryMethod |-> Binds({"adminJWT"}, {"deliveryMethodId"}, {}),
  AdminGetDeliveryMethod    |-> Binds({"adminJWT"}, {"deliveryMethodId"}, {}),
  AdminUpdateDeliveryMethod |-> Binds({"adminJWT"}, {"deliveryMethodId"}, {})]

\* Dictionaries and their values.
Dictionaries == [
  AdminListDictionaries |-> Binds({"adminJWT"}, {}, {"page", "limit"}),
  AdminCreateDictionary |-> Binds({"adminJWT"}, {}, {}),
  AdminGetDictionary    |-> Binds({"adminJWT"}, {"dictionaryId"}, {}),
  AdminUpdateDictionary |-> Binds({"adminJWT"}, {"dictionaryId"}, {})]

DictionaryValues == [
  AdminListDictionaryValues  |-> Binds({"adminJWT"}, {"dictionaryId"},
                                  {"is_archived", "page", "limit"}),
  AdminCreateDictionaryValue |-> Binds({"adminJWT"}, {"dictionaryId"}, {}),
  AdminGetDictionaryValue    |-> Binds({"adminJWT"}, {"valueId"}, {}),
  AdminUpdateDictionaryValue |-> Binds({"adminJWT"}, {"valueId"}, {})]

\* Field definitions.
FieldDefinitionCollection == [
  AdminListFieldDefinitions  |-> Binds({"adminJWT"}, {},
                                  {"category_id", "is_deprecated", "page", "limit"}),
  AdminCreateFieldDefinition |-> Binds({"adminJWT"}, {}, {})]

FieldDefinitionItem == [
  AdminGetFieldDefinition    |-> Binds({"adminJWT"}, {"fieldDefinitionId"}, {}),
  AdminUpdateFieldDefinition |-> Binds({"adminJWT"}, {"fieldDefinitionId"}, {})]

\* Orders, for staff.
OrderCollection == [
  AdminListOrders |-> Binds({"adminJWT"}, {},
                       {"status", "customer_id", "created_at_gte", "created_at_lte",
                        "total_gte", "total_lte", "page", "limit", "sort"})]

OrderItem == [
  AdminGetOrder          |-> Binds({"adminJWT"}, {"orderId"}, {}),
  AdminUpdateOrderStatus |-> Binds({"adminJWT"}, {"orderId"}, {})]

\* Payment methods, for staff.
PaymentMethodCollection == [
  AdminListPaymentMethods  |-> Binds({"adminJWT"}, {}, {"page", "limit"}),
  AdminCreatePaymentMethod |-> Binds({"adminJWT"}, {}, {})]

PaymentMethodItem == [
  AdminDeletePaymentMethod |-> Binds({"adminJWT"}, {"paymentMethodId"}, {}),
  AdminGetPaymentMethod    |-> Binds({"adminJWT"}, {"paymentMethodId"}, {}),
  AdminUpdatePaymentMethod |-> Binds({"adminJWT"}, {"paymentMethodId"}, {})]

\* Posts, for staff.
PostCollection == [
  AdminListPosts  |-> Binds({"adminJWT"}, {}, {"published", "page", "limit", "sort"}),
  AdminCreatePost |-> Binds({"adminJWT"}, {}, {})]

PostItem == [
  AdminDeletePost |-> Binds({"adminJWT"}, {"postId"}, {}),
  AdminGetPost    |-> Binds({"adminJWT"}, {"postId"}, {}),
  AdminUpdatePost |-> Binds({"adminJWT"}, {"postId"}, {})]

\* Products, for staff.
ProductCollection == [
  AdminListProducts  |-> Binds({"adminJWT"}, {},
                          {"category_id", "is_active", "q", "page", "limit", "sort", "fields"}),
  AdminCreateProduct |-> Binds({"adminJWT"}, {}, {})]

ProductItem == [
  AdminDeleteProduct |-> Binds({"adminJWT"}, {"productId"}, {}),
  AdminGetProduct    |-> Binds({"adminJWT"}, {"productId"}, {}),
  AdminUpdateProduct |-> Binds({"adminJWT"}, {"productId"}, {})]

\* Roles and settings.
Roles == [
  AdminListRoles  |-> Binds({"adminJWT"}, {}, {}),
  AdminGetRole    |-> Binds({"adminJWT"}, {"roleId"}, {}),
  AdminUpdateRole |-> Binds({"adminJWT"}, {"roleId"}, {})]

Settings == [
  AdminGetSettings    |-> Binds({"adminJWT"}, {}, {}),
  AdminUpdateSettings |-> Binds({"adminJWT"}, {}, {})]

\* The storefront: cart, catalogue, delivery, the customer's profile.
Cart == [
  ClearCart      |-> Binds({"initData"}, {}, {}),
  GetCart        |-> Binds({"initData"}, {}, {}),
  AddCartItem    |-> Binds({"initData"}, {}, {}),
  RemoveCartItem |-> Binds({"initData"}, {"productId"}, {}),
  UpdateCartItem |-> Binds({"initData"}, {"productId"}, {})]

Catalog == [
  ListCategories    |-> Binds({"initData"}, {}, {"parent_id", "page", "limit", "sort"}),
  GetCategory       |-> Binds({"initData"}, {"categoryId"}, {}),
  GetCategoryFacets |-> Binds({"initData"}, {"categoryId"}, {})]

Delivery == [
  ListDeliveryMethods |-> Binds({"initData"}, {}, {"page", "limit"}),
  CreateDeliveryQuote |-> Binds({"initData"}, {}, {})]

Profile == [
  GetMe |-> Binds({"initData"}, {}, {})]

\* Media.
Media == [
  ConfirmMedia          |-> Binds({"adminJWT"}, {}, {}),
  CreatePresignedUpload |-> Binds({"adminJWT"}, {}, {}),
  DeleteMedia           |-> Binds({"adminJWT"}, {"mediaId"}, {}),
  GetMedia              |-> Binds({"adminJWT"}, {"mediaId"}, {})]

\* A customer's orders and payments.
MyOrders == [
  ListMyOrders |-> Binds({"initData"}, {},
                    {"status", "created_at_gte", "created_at_lte", "page", "limit", "sort"}),
  CreateOrder  |-> Binds({"initData"}, {}, {}),
  GetMyOrder   |-> Binds({"initData"}, {"orderId"}, {})]

Payments == [
  InitiatePayment |-> Binds({"initData"}, {"orderId"}, {}),
  PaymentWebhook  |-> Binds({"providerSignature"}, {"provider"}, {}),
  GetPayment      |-> Binds({"initData", "adminJWT"}, {"paymentId"}, {})]

\* Posts and products, for the storefront.
Posts == [
  ListPosts |-> Binds({"initData"}, {}, {"page", "limit", "sort"}),
  GetPost   |-> Binds({"initData"}, {"postId"}, {})]

Products == [
  ListProducts |-> Binds({"initData"}, {},
                    {"category_id", "q", "price_gte", "price_lte", "in_stock", "facet",
                     "page", "limit", "sort", "fields"}),
  GetProduct   |-> Binds({"initData"}, {"productId"}, {})]

\* Every operation of the contract.
Bindings ==
  StaffCollection @@ StaffItem @@ Sessions @@ CategoryCollection @@ CategoryItem @@
  DeliveryMethodCollection @@ DeliveryMethodItem @@ Dictionaries @@ DictionaryValues @@
  FieldDefinitionCollection @@ FieldDefinitionItem @@ OrderCollection @@ OrderItem @@
  PaymentMethodCollection @@ PaymentMethodItem @@ PostCollection @@ PostItem @@
  ProductCollection @@ ProductItem @@ Roles @@ Settings @@ Cart @@ Catalog @@ Delivery @@
  Profile @@ Media @@ MyOrders @@ Payments @@ Posts @@ Products

=============================================================================
