-------------------------- MODULE ContractBodies --------------------------
(*****************************************************************************)
(* What the generated strict server does with the body of a request: nothing, *)
(* decode it and refuse an empty one, or decode it if there is one           *)
(* (strictHandler).  A table per resource, an entry per operation.           *)
(*****************************************************************************)
EXTENDS TLC

\* Staff accounts.
StaffCollection == [
  AdminListAdminUsers  |-> "none",
  AdminCreateAdminUser |-> "required"]

StaffItem == [
  AdminDeactivateAdminUser |-> "none",
  AdminGetAdminUser        |-> "none",
  AdminUpdateAdminUser     |-> "required"]

\* Staff sessions.
Sessions == [
  AdminLogin   |-> "required",
  AdminLogout  |-> "optional",
  GetAdminMe   |-> "none",
  AdminRefresh |-> "required"]

\* Categories, for staff.
CategoryCollection == [
  AdminListCategories |-> "none",
  AdminCreateCategory |-> "required"]

CategoryItem == [
  AdminDeleteCategory |-> "none",
  AdminGetCategory    |-> "none",
  AdminUpdateCategory |-> "required"]

\* Delivery methods, for staff.
DeliveryMethodCollection == [
  AdminListDeliveryMethods  |-> "none",
  AdminCreateDeliveryMethod |-> "required"]

DeliveryMethodItem == [
  AdminDeleteDeliveryMethod |-> "none",
  AdminGetDeliveryMethod    |-> "none",
  AdminUpdateDeliveryMethod |-> "required"]

\* Dictionaries and their values.
Dictionaries == [
  AdminListDictionaries |-> "none",
  AdminCreateDictionary |-> "required",
  AdminGetDictionary    |-> "none",
  AdminUpdateDictionary |-> "required"]

DictionaryValues == [
  AdminListDictionaryValues  |-> "none",
  AdminCreateDictionaryValue |-> "required",
  AdminGetDictionaryValue    |-> "none",
  AdminUpdateDictionaryValue |-> "required"]

\* Field definitions.
FieldDefinitionCollection == [
  AdminListFieldDefinitions  |-> "none",
  AdminCreateFieldDefinition |-> "required"]

FieldDefinitionItem == [
  AdminGetFieldDefinition    |-> "none",
  AdminUpdateFieldDefinition |-> "required"]

\* Orders, for staff.
OrderCollection == [
  AdminListOrders |-> "none"]

OrderItem == [
  AdminGetOrder          |-> "none",
  AdminUpdateOrderStatus |-> "required"]

\* Payment methods, for staff.
PaymentMethodCollection == [
  AdminListPaymentMethods  |-> "none",
  AdminCreatePaymentMethod |-> "required"]

PaymentMethodItem == [
  AdminDeletePaymentMethod |-> "none",
  AdminGetPaymentMethod    |-> "none",
  AdminUpdatePaymentMethod |-> "required"]

\* Posts, for staff.
PostCollection == [
  AdminListPosts  |-> "none",
  AdminCreatePost |-> "required"]

PostItem == [
  AdminDeletePost |-> "none",
  AdminGetPost    |-> "none",
  AdminUpdatePost |-> "required"]

\* Products, for staff.
ProductCollection == [
  AdminListProducts  |-> "none",
  AdminCreateProduct |-> "required"]

ProductItem == [
  AdminDeleteProduct |-> "none",
  AdminGetProduct    |-> "none",
  AdminUpdateProduct |-> "required"]

\* Roles and settings.
Roles == [
  AdminListRoles  |-> "none",
  AdminGetRole    |-> "none",
  AdminUpdateRole |-> "required"]

Settings == [
  AdminGetSettings    |-> "none",
  AdminUpdateSettings |-> "required"]

\* The storefront: cart, catalogue, delivery, the customer's profile.
Cart == [
  ClearCart      |-> "none",
  GetCart        |-> "none",
  AddCartItem    |-> "required",
  RemoveCartItem |-> "none",
  UpdateCartItem |-> "required"]

Catalog == [
  ListCategories    |-> "none",
  GetCategory       |-> "none",
  GetCategoryFacets |-> "none"]

Delivery == [
  ListDeliveryMethods |-> "none",
  CreateDeliveryQuote |-> "required"]

Profile == [
  GetMe |-> "none"]

\* Media.
Media == [
  ConfirmMedia          |-> "required",
  CreatePresignedUpload |-> "required",
  DeleteMedia           |-> "none",
  GetMedia              |-> "none"]

\* A customer's orders and payments.
MyOrders == [
  ListMyOrders |-> "none",
  CreateOrder  |-> "required",
  GetMyOrder   |-> "none"]

Payments == [
  InitiatePayment |-> "optional",
  PaymentWebhook  |-> "required",
  GetPayment      |-> "none"]

\* Posts and products, for the storefront.
Posts == [
  ListPosts |-> "none",
  GetPost   |-> "none"]

Products == [
  ListProducts |-> "none",
  GetProduct   |-> "none"]

\* Every operation of the contract.
Bodies ==
  StaffCollection @@ StaffItem @@ Sessions @@ CategoryCollection @@ CategoryItem @@
  DeliveryMethodCollection @@ DeliveryMethodItem @@ Dictionaries @@ DictionaryValues @@
  FieldDefinitionCollection @@ FieldDefinitionItem @@ OrderCollection @@ OrderItem @@
  PaymentMethodCollection @@ PaymentMethodItem @@ PostCollection @@ PostItem @@
  ProductCollection @@ ProductItem @@ Roles @@ Settings @@ Cart @@ Catalog @@ Delivery @@
  Profile @@ Media @@ MyOrders @@ Payments @@ Posts @@ Products

=============================================================================
