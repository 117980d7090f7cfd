-------------------------- MODULE ContractAnswers --------------------------
(*****************************************************************************)
(* The answers the contract declares: for each operation the statuses for which *)
(* the generated server has a response type, each with its Visit method.  Every *)
(* one but 204 carries a JSON body.  A table per resource, an entry per operation. *)
(*****************************************************************************)
EXTENDS TLC

\* Staff accounts.
StaffCollection == [
  AdminListAdminUsers  |-> {200, 401, 403, 500},
  AdminCreateAdminUser |-> {201, 400, 401, 403, 409, 422, 500}]

StaffItem == [
  AdminDeactivateAdminUser |-> {204, 401, 403, 404, 500},
  AdminGetAdminUser        |-> {200, 401, 403, 404, 500},
  AdminUpdateAdminUser     |-> {200, 400, 401, 403, 404, 409, 422, 500}]

\* Staff sessions.
Sessions == [
  AdminLogin   |-> {200, 400, 401, 422, 429, 500},
  AdminLogout  |-> {204, 401, 500},
  GetAdminMe   |-> {200, 401, 500},
  AdminRefresh |-> {200, 400, 401, 500}]

\* Categories, for staff.
CategoryCollection == [
  AdminListCategories |-> {200, 401, 403, 500},
  AdminCreateCategory |-> {201, 400, 401, 403, 409, 422, 500}]

CategoryItem == [
  AdminDeleteCategory |-> {204, 401, 403, 404, 409, 500},
  AdminGetCategory    |-> {200, 401, 403, 404, 500},
  AdminUpdateCategory |-> {200, 400, 401, 403, 404, 409, 422, 500}]

\* Delivery methods, for staff.
DeliveryMethodCollection == [
  AdminListDeliveryMethods  |-> {200, 401, 403, 500},
  AdminCreateDeliveryMethod |-> {201, 400, 401, 403, 409, 422, 500}]

DeliveryMethodItem == [
  AdminDeleteDeliveryMethod |-> {204, 401, 403, 404, 409, 500},
  AdminGetDeliveryMethod    |-> {200, 401, 403, 404, 500},
  AdminUpdateDeliveryMethod |-> {200, 400, 401, 403, 404, 409, 422, 500}]

\* Dictionaries and their values.
Dictionaries == [
  AdminListDictionaries |-> {200, 401, 403, 500},
  AdminCreateDictionary |-> {201, 400, 401, 403, 409, 422, 500},
  AdminGetDictionary    |-> {200, 401, 403, 404, 500},
  AdminUpdateDictionary |-> {200, 400, 401, 403, 404, 422, 500}]

DictionaryValues == [
  AdminListDictionaryValues  |-> {200, 401, 403, 404, 500},
  AdminCreateDictionaryValue |-> {201, 400, 401, 403, 404, 422, 500},
  AdminGetDictionaryValue    |-> {200, 401, 403, 404, 500},
  AdminUpdateDictionaryValue |-> {200, 400, 401, 403, 404, 422, 500}]

\* Field definitions.
FieldDefinitionCollection == [
  AdminListFieldDefinitions  |-> {200, 401, 403, 500},
  AdminCreateFieldDefinition |-> {201, 400, 401, 403, 404, 422, 500}]

FieldDefinitionItem == [
  AdminGetFieldDefinition    |-> {200, 401, 403, 404, 500},
  AdminUpdateFieldDefinition |-> {200, 400, 401, 403, 404, 422, 500}]

\* Orders, for staff.
OrderCollection == [
  AdminListOrders |-> {200, 401, 403, 500}]

OrderItem == [
  AdminGetOrder          |-> {200, 401, 403, 404, 500},
  AdminUpdateOrderStatus |-> {200, 400, 401, 403, 404, 409, 422, 500}]

\* Payment methods, for staff.
PaymentMethodCollection == [
  AdminListPaymentMethods  |-> {200, 401, 403, 500},
  AdminCreatePaymentMethod |-> {201, 400, 401, 403, 409, 422, 500}]

PaymentMethodItem == [
  AdminDeletePaymentMethod |-> {204, 401, 403, 404, 409, 500},
  AdminGetPaymentMethod    |-> {200, 401, 403, 404, 500},
  AdminUpdatePaymentMethod |-> {200, 400, 401, 403, 404, 409, 422, 500}]

\* Posts, for staff.
PostCollection == [
  AdminListPosts  |-> {200, 401, 403, 500},
  AdminCreatePost |-> {201, 400, 401, 403, 409, 422, 500}]

PostItem == [
  AdminDeletePost |-> {204, 401, 403, 404, 500},
  AdminGetPost    |-> {200, 401, 403, 404, 500},
  AdminUpdatePost |-> {200, 400, 401, 403, 404, 409, 422, 500}]

\* Products, for staff.
ProductCollection == [
  AdminListProducts  |-> {200, 401, 403, 500},
  AdminCreateProduct |-> {201, 400, 401, 403, 409, 422, 500}]

ProductItem == [
  AdminDeleteProduct |-> {204, 401, 403, 404, 500},
  AdminGetProduct    |-> {200, 401, 403, 404, 500},
  AdminUpdateProduct |-> {200, 400, 401, 403, 404, 409, 422, 500}]

\* Roles and settings.
Roles == [
  AdminListRoles  |-> {200, 401, 403, 500},
  AdminGetRole    |-> {200, 401, 403, 404, 500},
  AdminUpdateRole |-> {200, 400, 401, 403, 404, 422, 500}]

Settings == [
  AdminGetSettings    |-> {200, 401, 403, 500},
  AdminUpdateSettings |-> {200, 400, 401, 403, 422, 500}]

\* The storefront: cart, catalogue, delivery, the customer's profile.
Cart == [
  ClearCart      |-> {204, 401, 500},
  GetCart        |-> {200, 401, 500},
  AddCartItem    |-> {200, 400, 401, 404, 409, 422, 500},
  RemoveCartItem |-> {200, 401, 404, 500},
  UpdateCartItem |-> {200, 400, 401, 404, 409, 422, 500}]

Catalog == [
  ListCategories    |-> {200, 401, 500},
  GetCategory       |-> {200, 401, 404, 500},
  GetCategoryFacets |-> {200, 401, 404, 500}]

Delivery == [
  ListDeliveryMethods |-> {200, 401, 500},
  CreateDeliveryQuote |-> {200, 400, 401, 404, 409, 422, 500}]

Profile == [
  GetMe |-> {200, 401, 500}]

\* Media.
Media == [
  ConfirmMedia          |-> {201, 400, 401, 403, 404, 409, 422, 500},
  CreatePresignedUpload |-> {201, 400, 401, 403, 422, 500},
  DeleteMedia           |-> {204, 401, 403, 404, 409, 500},
  GetMedia              |-> {200, 401, 403, 404, 500}]

\* A customer's orders and payments.
MyOrders == [
  ListMyOrders |-> {200, 401, 500},
  CreateOrder  |-> {201, 400, 401, 404, 409, 422, 500},
  GetMyOrder   |-> {200, 401, 403, 404, 500}]

Payments == [
  InitiatePayment |-> {201, 400, 401, 403, 404, 409, 422, 500},
  PaymentWebhook  |-> {200, 400, 401, 404, 500},
  GetPayment      |-> {200, 401, 403, 404, 500}]

\* Posts and products, for the storefront.
Posts == [
  ListPosts |-> {200, 401, 500},
  GetPost   |-> {200, 401, 404, 500}]

Products == [
  ListProducts |-> {200, 400, 401, 500},
  GetProduct   |-> {200, 401, 404, 500}]

\* Every operation of the contract.
Answers ==
  StaffCollection @@ StaffItem @@ Sessions @@ CategoryCollection @@ CategoryItem @@
  DeliveryMethodCollection @@ DeliveryMethodItem @@ Dictionaries @@ DictionaryValues @@
  FieldDefinitionCollection @@ FieldDefinitionItem @@ OrderCollection @@ OrderItem @@
  PaymentMethodCollection @@ PaymentMethodItem @@ PostCollection @@ PostItem @@
  ProductCollection @@ ProductItem @@ Roles @@ Settings @@ Cart @@ Catalog @@ Delivery @@
  Profile @@ Media @@ MyOrders @@ Payments @@ Posts @@ Products

=============================================================================
